---- MODULE Spec2Model ----
(***************************************************************************)
(* pydonk: the DMM map codec (mapparse.reader, mapparse.writer), the Tile  *)
(* API and the icon-metadata reader (iconparse.reader).                    *)
(*                                                                         *)
(* Text is a sequence of one-character strings, so that formatting and     *)
(* parsing are computed character by character.  Numbers are exact         *)
(* decimals: an int is [t |-> "int", n], a float is [t |-> "float", n, k]  *)
(* and stands for n * 10^(-k), kept normalised (k = 0 or n not a multiple  *)
(* of 10).  TLC integers are 32 bits wide, so every number of the model    *)
(* stays below 2^31; Python's own integers are unbounded.                  *)
(***************************************************************************)
EXTENDS Integers, Sequences, FiniteSets, TLC

\* ------------------------------------------------------------------ bounds

\* Longest list value drawn as an input of write_val.
MaxListLen == 3
\* Most Tile API mutations in one behaviour of the map pipeline.
MaxOps == 1
\* Most calls of Read on one reader.
MaxReads == 2
\* Most Tile API calls in one behaviour of a single tile.
MaxTileOps == 2
\* Longest run of digits read as an integer of the model; a longer one is
\* kept by its digits.
MaxIntDigits == 9
\* Most perform_checks calls on one Linter.
MaxRuns == 2
\* Most GetDmiData calls on one ImageStore.
MaxCalls == 3
\* Most dmlist operations in one behaviour.
MaxListOps == 4
\* Most operations in one behaviour of lists, objects and _del.
MaxDmOps == 3
\* Most dmlists constructed in one behaviour.
MaxLists == 3

\* ------------------------------------------------------------------- state

VARIABLES
    wv_v,        \* write_val: the argument
    wv_called,   \* write_val: whether the call has returned
    wv_ret,      \* write_val: the text returned
    t_d,         \* a Tile: self.d, the list of datums
    t_call,      \* the last Tile call: its arguments, the tile before it, its outcome
    t_nops,      \* the number of Tile calls made
    m_disk,      \* the text of the file at the map Reader's dmm_filename
    r_parsed,    \* map Reader: self.parsed
    r_keys,      \* map Reader: the transformer's keys table
    r_map,       \* map Reader: the transformer's map table
    r_ret,       \* map Reader: how the last Read ended
    r_returned,  \* map Reader: whether a Read has returned the model
    r_nreads,    \* map Reader: the number of Read calls made
    m_nops,      \* the number of Tile API mutations made on the model
    w_written,   \* whether Writer(model).write_file has run
    w_text,      \* the text it left in the file
    w_ret,       \* how it ended: "none" before the call, "ok", or the exception
    b_ret,       \* how Read ended on a fresh Reader of the written file
    b_keys,      \* the keys table of that Reader's transformer
    b_map,       \* the map table of that Reader's transformer
    w2_written,  \* whether the model read back has been written again
    w2_text,     \* the text written from the model read back
    i_file,      \* the file at the icon Reader's dmi_filename
    i_parsed,    \* icon Reader: self.parsed
    i_ret,       \* icon Reader: how the last Read ended
    i_returned,  \* icon Reader: whether a Read has returned a DmiData
    i_nreads,    \* icon Reader: the number of Read calls made
    l_checklist, \* Linter: self.checklist, the check classes in order
    l_failures,  \* Linter: self.lint_failures, coordinates to finding lists
    l_mapdata,   \* Linter: whether self.mapdata holds the model
    l_nruns,     \* Linter: the number of perform_checks calls made
    l_call,      \* the last perform_checks call: how it ended, the model it ran
                 \* on, and the outcome and model of the call before it
    s_files,     \* ImageStore: the file at each path under root
    s_datas,     \* ImageStore: self.dmi_datas
    s_call,      \* the last GetDmiData call: its path, how it ended, its result
    s_ncalls,    \* the number of GetDmiData calls made
    d_lists,     \* the dmlists: keys and values of each
    d_add_lists, \* the iota objects: _add_lists of each
    d_call,      \* the last dmlist operation: its operands, the lists before
                 \* it, how it ended and what it returned
    d_nops,      \* the number of dmlist operations made
    d_attrs,     \* the iota objects that hold attributes: each attribute's value
    d_add_vars   \* the iota objects: _add_vars of each, as (holder, name) pairs

\* ------------------------------------------------------------ value model

IntV(n) == [t |-> "int", n |-> n]
\* a Python int of more than MaxIntDigits digits, by its sign and its decimal
\* digits without leading zeros
LongV(neg, digits) == [t |-> "long", neg |-> neg, digits |-> digits]
FloatV(n, k) == [t |-> "float", n |-> n, k |-> k]
StrV(s) == [t |-> "str", s |-> s]
NullV == [t |-> "null"]
PathV(p) == [t |-> "path", p |-> p]
ResV(s) == [t |-> "resource", s |-> s]
ListV(items) == [t |-> "list", items |-> items]
\* kv_pair: a one-entry dict {key: value}, the key a str
DictV(k, v) == [t |-> "dict", k |-> k, v |-> v]

\* ------------------------------------------------------- Python builtins

DigitChars == <<"0", "1", "2", "3", "4", "5", "6", "7", "8", "9">>
Digits == {DigitChars[i] : i \in 1..10}
DigitVal(c) == (CHOOSE i \in 1..10 : DigitChars[i] = c) - 1

RECURSIVE Pow10(_)
Pow10(e) == IF e <= 0 THEN 1 ELSE 10 * Pow10(e - 1)

\* str(n) for n >= 0
RECURSIVE NatStr(_)
NatStr(n) == IF n < 10 THEN <<DigitChars[n + 1]>>
             ELSE NatStr(n \div 10) \o <<DigitChars[(n % 10) + 1]>>

\* str(v) for an int
IntStr(n) == IF n < 0 THEN <<"-">> \o NatStr(-n) ELSE NatStr(n)

Zeros(n) == [i \in 1..n |-> "0"]

\* an exponent as 'e' formatting prints it: at least two digits
Exp2(e) == IF e < 10 THEN <<"0">> \o NatStr(e) ELSE NatStr(e)

\* str(v) for a float n * 10^(-k) >= 0 below 1e16: repr's shortest form,
\* exponent form below 1e-4
FloatAbsStr(n, k) ==
    IF n # 0 /\ k >= 5 /\ n < Pow10(k - 4)
    THEN LET D == NatStr(n)
             frac == IF Len(D) > 1 THEN <<".">> \o SubSeq(D, 2, Len(D)) ELSE <<>>
         IN <<D[1]>> \o frac \o <<"e", "-">> \o Exp2(k - (Len(D) - 1))
    ELSE IF k = 0 THEN NatStr(n) \o <<".", "0">>
    ELSE LET P == Pow10(k)
             F == NatStr(n % P)
         IN NatStr(n \div P) \o <<".">> \o Zeros(k - Len(F)) \o F

FloatStr(n, k) == IF n < 0 THEN <<"-">> \o FloatAbsStr(-n, k) ELSE FloatAbsStr(n, k)

\* v > 999999 for an int or a float
Threshold == 999999
GreaterThanThreshold(v) ==
    IF v.t = "int" THEN v.n > Threshold
    ELSE LET P == Pow10(v.k)
         IN v.n \div P > Threshold \/ (v.n \div P = Threshold /\ v.n % P > 0)

\* '{0:.0e}'.format(x) for a number x >= 10 (write_val calls it above 999999
\* only): one mantissa digit, rounded half to even on the exact value, 'e',
\* the exponent's sign, at least two exponent digits
PyFormat_0e(v) ==
    LET k == IF v.t = "int" THEN 0 ELSE v.k
        P == Pow10(k)
        I == v.n \div P
        fz == (v.n % P) # 0
        e == Len(NatStr(I)) - 1
        Q == Pow10(e)
        d == I \div Q
        rem == I % Q
        up == 2 * rem > Q \/ (2 * rem = Q /\ (fz \/ d % 2 = 1))
        d2 == IF up THEN d + 1 ELSE d
        m == IF d2 = 10 THEN 1 ELSE d2
        e2 == IF d2 = 10 THEN e + 1 ELSE e
    IN NatStr(m) \o <<"e", "+">> \o Exp2(e2)

\* the least int that float() rejects with OverflowError: 2^1024 - 2^970
FloatLimit ==
    <<"1", "7", "9", "7", "6", "9", "3", "1", "3", "4", "8", "6", "2", "3", "1", "5",
      "8", "0", "7", "9", "3", "7", "2", "8", "9", "7", "1", "4", "0", "5", "3", "0",
      "3", "4", "1", "5", "0", "7", "9", "9", "3", "4", "1", "3", "2", "7", "1", "0",
      "0", "3", "7", "8", "2", "6", "9", "3", "6", "1", "7", "3", "7", "7", "8", "9",
      "8", "0", "4", "4", "4", "9", "6", "8", "2", "9", "2", "7", "6", "4", "7", "5",
      "0", "9", "4", "6", "6", "4", "9", "0", "1", "7", "9", "7", "7", "5", "8", "7",
      "2", "0", "7", "0", "9", "6", "3", "3", "0", "2", "8", "6", "4", "1", "6", "6",
      "9", "2", "8", "8", "7", "9", "1", "0", "9", "4", "6", "5", "5", "5", "5", "4",
      "7", "8", "5", "1", "9", "4", "0", "4", "0", "2", "6", "3", "0", "6", "5", "7",
      "4", "8", "8", "6", "7", "1", "5", "0", "5", "8", "2", "0", "6", "8", "1", "9",
      "0", "8", "9", "0", "2", "0", "0", "0", "7", "0", "8", "3", "8", "3", "6", "7",
      "6", "2", "7", "3", "8", "5", "4", "8", "4", "5", "8", "1", "7", "7", "1", "1",
      "5", "3", "1", "7", "6", "4", "4", "7", "5", "7", "3", "0", "2", "7", "0", "0",
      "6", "9", "8", "5", "5", "5", "7", "1", "3", "6", "6", "9", "5", "9", "6", "2",
      "2", "8", "4", "2", "9", "1", "4", "8", "1", "9", "8", "6", "0", "8", "3", "4",
      "9", "3", "6", "4", "7", "5", "2", "9", "2", "7", "1", "9", "0", "7", "4", "1",
      "6", "8", "4", "4", "4", "3", "6", "5", "5", "1", "0", "7", "0", "4", "3", "4",
      "2", "7", "1", "1", "5", "5", "9", "6", "9", "9", "5", "0", "8", "0", "9", "3",
      "0", "4", "2", "8", "8", "0", "1", "7", "7", "9", "0", "4", "1", "7", "4", "4",
      "9", "7", "7", "9", "2">>

\* whether the decimal a is below the decimal b of the same length
DigitsLess(a, b) ==
    \E i \in 1..Len(a) :
        /\ DigitVal(a[i]) < DigitVal(b[i])
        /\ \A j \in 1..(i - 1) : a[j] = b[j]

\* whether float(v) raises OverflowError for the positive int of these digits
FloatOverflows(digits) ==
    \/ Len(digits) > Len(FloatLimit)
    \/ Len(digits) = Len(FloatLimit) /\ ~DigitsLess(digits, FloatLimit)

\* the exception format() raises for an int that float() rejects; it leaves
\* write_val and every caller above it, so the text holding it is not written
OverflowError == <<"OverflowError">>

\* '{0:.0e}'.format(x) for a positive int by its digits: OverflowError when
\* float(x) overflows, else one mantissa digit rounded half to even on the
\* decimal value, 'e+' and the exponent
LongFormat_0e(digits) ==
    IF FloatOverflows(digits) THEN OverflowError
    ELSE LET d == DigitVal(digits[1])
             rest == Tail(digits)
             half == <<"5">> \o Zeros(Len(rest) - 1)
             up == \/ DigitsLess(half, rest)
                   \/ rest = half /\ d % 2 = 1
             d2 == IF up THEN d + 1 ELSE d
             m == IF d2 = 10 THEN 1 ELSE d2
             e2 == IF d2 = 10 THEN Len(rest) + 1 ELSE Len(rest)
         IN NatStr(m) \o <<"e", "+">> \o Exp2(e2)

\* ------------------------------------------- Writer.write_val

\* index of the first 'e' of ss, 0 when there is none
RECURSIVE FindE(_, _)
FindE(ss, i) == IF i > Len(ss) THEN 0 ELSE IF ss[i] = "e" THEN i ELSE FindE(ss, i + 1)

\* ('{0:' + format_spec + '}').format(self.val) with format_spec '.0e'
Format_0e(v) == IF v.t = "long" THEN LongFormat_0e(v.digits) ELSE PyFormat_0e(v)

\* the mutant: the exponent as Python prints it, no digit inserted
DMLargeNumber_format_plain(v) == Format_0e(v)

\* DMLargeNumber.__format__ with format_spec '.0e'
DMLargeNumber_format(v) ==
    LET ss == Format_0e(v)
        at == FindE(ss, 1)
    IN IF at > 0
       THEN LET mantissa == SubSeq(ss, 1, at - 1)
                exp == SubSeq(ss, at + 1, Len(ss))
            IN mantissa \o <<"e">> \o <<exp[1]>> \o <<"0">> \o SubSeq(exp, 2, Len(exp))
       ELSE ss

\* sep.join(parts)
RECURSIVE Join(_, _)
Join(parts, sep) ==
    IF Len(parts) = 0 THEN <<>>
    ELSE IF Len(parts) = 1 THEN parts[1]
    ELSE parts[1] \o sep \o Join(Tail(parts), sep)

\* the list branch of write_val: one separator for the whole list, with a
\* space as soon as any element is a dict
ListJoin(items, parts) ==
    LET add_spacing == IF \E i \in 1..Len(items) : items[i].t = "dict"
                       THEN <<" ">> ELSE <<>>
    IN Join(parts, <<",">> \o add_spacing)

RECURSIVE write_val(_)
write_val(v) ==
    CASE v.t = "resource" -> <<"'">> \o v.s \o <<"'">>
      [] v.t = "path" -> v.p
      [] v.t = "str" -> <<"\"">> \o v.s \o <<"\"">>
      [] v.t = "dict" -> write_val(StrV(v.k)) \o <<" ", "=", " ">> \o write_val(v.v)
      [] v.t = "list" ->
            <<"l", "i", "s", "t", "(">>
            \o ListJoin(v.items, [i \in 1..Len(v.items) |-> write_val(v.items[i])])
            \o <<")">>
      [] v.t = "long" ->
            IF v.neg THEN <<"-">> \o v.digits ELSE DMLargeNumber_format(v)
      [] v.t \in {"int", "float"} ->
            IF GreaterThanThreshold(v) THEN DMLargeNumber_format(v)
            ELSE IF v.t = "int" THEN IntStr(v.n) ELSE FloatStr(v.n, v.k)
      [] v.t = "null" -> <<"n", "u", "l", "l">>

\* ------------------------------------------------------ grammar and lexer

\* dmm_header
HEADER ==
    <<"/", "/", "M", "A", "P", " ", "C", "O", "N", "V", "E", "R", "T", "E",
      "D", " ", "B", "Y", " ", "d", "m", "m", "2", "t", "g", "m", ".", "p",
      "y", " ", "T", "H", "I", "S", " ", "H", "E", "A", "D", "E", "R", " ",
      "C", "O", "M", "M", "E", "N", "T", " ", "P", "R", "E", "V", "E", "N",
      "T", "S", " ", "R", "E", "C", "O", "N", "V", "E", "R", "S", "I", "O",
      "N", ",", " ", "D", "O", " ", "N", "O", "T", " ", "R", "E", "M", "O",
      "V", "E">>

\* common.WS
WS == {" ", "\t", "\n", "\r", "\f"}
\* common.LETTER
Letters ==
    {"a", "b", "c", "d", "e", "f", "g", "h", "i", "j", "k", "l", "m", "n",
     "o", "p", "q", "r", "s", "t", "u", "v", "w", "x", "y", "z", "A", "B",
     "C", "D", "E", "F", "G", "H", "I", "J", "K", "L", "M", "N", "O", "P",
     "Q", "R", "S", "T", "U", "V", "W", "X", "Y", "Z"}
\* common.CNAME: ("_" | LETTER) ("_" | LETTER | DIGIT)*
NameStart == Letters \cup {"_"}
NameChars == NameStart \cup Digits

Fail == [ok |-> FALSE, pos |-> 0, val |-> NullV]
Ok(p, v) == [ok |-> TRUE, pos |-> p, val |-> v]

\* sequencing of two parse steps: K on the result r when r matched, else the
\* parse error; and the same with an alternative E in place of the error
Then(r, K(_)) == IF r.ok THEN K(r) ELSE Fail
ThenElse(r, K(_), E) == IF r.ok THEN K(r) ELSE E

\* the first position from i on whose character is not in S
ScanWhile(s, i, S) ==
    IF \E j \in i..Len(s) : s[j] \notin S
    THEN CHOOSE j \in i..Len(s) : s[j] \notin S /\ \A k \in i..(j - 1) : s[k] \in S
    ELSE IF i > Len(s) THEN i ELSE Len(s) + 1

\* %ignore WS
SkipWS(s, i) == ScanWhile(s, i, WS)

At(s, i, lit) == i + Len(lit) - 1 <= Len(s) /\ SubSeq(s, i, i + Len(lit) - 1) = lit

\* an anonymous token of the grammar, after ignored whitespace
Tok(s, i, lit) ==
    LET j == SkipWS(s, i)
    IN IF At(s, j, lit) THEN Ok(j + Len(lit), NullV) ELSE Fail

\* the CNAME terminal and its callback (sk.value)
CNAME(s, i) ==
    LET j == SkipWS(s, i)
    IN IF j <= Len(s) /\ s[j] \in NameStart
       THEN LET e == ScanWhile(s, j + 1, NameChars)
            IN Ok(e, SubSeq(s, j, e - 1))
       ELSE Fail

\* int() of a run of digits
RECURSIVE DigitsVal(_)
DigitsVal(ds) ==
    IF Len(ds) = 0 THEN 0
    ELSE 10 * DigitsVal(SubSeq(ds, 1, Len(ds) - 1)) + DigitVal(ds[Len(ds)])

\* int() of a run of digits with its sign
PyInt(neg, ds) ==
    IF ScanWhile(ds, 1, {"0"}) + MaxIntDigits <= Len(ds)
    THEN LongV(neg, SubSeq(ds, ScanWhile(ds, 1, {"0"}), Len(ds)))
    ELSE IntV(IF neg THEN -DigitsVal(ds) ELSE DigitsVal(ds))

\* float() of the decimal N * 10^(-K), normalised
RECURSIVE Norm(_, _)
Norm(N, K) ==
    IF N = 0 THEN FloatV(0, 0)
    ELSE IF K < 0 THEN FloatV(N * Pow10(-K), 0)
    ELSE IF K > 0 /\ N % 10 = 0 THEN Norm(N \div 10, K - 1)
    ELSE FloatV(N, K)

\* _EXP: ("e"|"E") SIGNED_INT, at position p exactly
ExpAt(s, p) ==
    IF p <= Len(s) /\ s[p] \in {"e", "E"}
    THEN LET signed == p + 1 <= Len(s) /\ s[p + 1] \in {"+", "-"}
             q == IF signed THEN p + 2 ELSE p + 1
             r == ScanWhile(s, q, Digits)
             mag == DigitsVal(SubSeq(s, q, r - 1))
         IN IF r > q
            THEN Ok(r, IF signed /\ s[p + 1] = "-" THEN -mag ELSE mag)
            ELSE Fail
    ELSE Fail

\* the INT terminal and its callback: int(sk.value)
INT(s, i) ==
    LET j == SkipWS(s, i)
        e == ScanWhile(s, j, Digits)
    IN IF e > j THEN Ok(e, DigitsVal(SubSeq(s, j, e - 1))) ELSE Fail

\* the mutant: int() of the digits before the point
FLOAT_as_int(d1, d2, x) == IntV(DigitsVal(d1))

\* the FLOAT callback: float(sk.value), from the digits before and after the
\* point and the exponent
FLOAT(d1, d2, x) == Norm(DigitsVal(d1 \o d2), Len(d2) - x)

\* a number at position j: FLOAT (INT _EXP | DECIMAL _EXP?, no sign) is tried
\* before SIGNED_INT and INT; their callbacks are float() and int()
Number(s, j) ==
    IF j <= Len(s) /\ s[j] \in {"+", "-"}
    THEN LET e == ScanWhile(s, j + 1, Digits)
         IN IF e > j + 1 THEN Ok(e, PyInt(s[j] = "-", SubSeq(s, j + 1, e - 1))) ELSE Fail
    ELSE LET e1 == ScanWhile(s, j, Digits)
             hasDot == e1 <= Len(s) /\ s[e1] = "."
             e2 == IF hasDot THEN ScanWhile(s, e1 + 1, Digits) ELSE e1
             d1 == SubSeq(s, j, e1 - 1)
             d2 == SubSeq(s, e1 + 1, e2 - 1)
             decimal == hasDot /\ (e1 > j \/ e2 > e1 + 1)
             x == ExpAt(s, IF decimal THEN e2 ELSE e1)
         IN IF decimal
            THEN IF x.ok THEN Ok(x.pos, FLOAT(d1, d2, x.val)) ELSE Ok(e2, FLOAT(d1, d2, 0))
            ELSE IF e1 > j
            THEN IF x.ok THEN Ok(x.pos, FLOAT(d1, <<>>, x.val)) ELSE Ok(e1, PyInt(FALSE, d1))
            ELSE Fail

\* the closing quote q of a quoted token whose content starts at i: the first
\* q not escaped by a backslash, on the same line; 0 when there is none
RECURSIVE ScanQuoted(_, _, _)
ScanQuoted(s, i, q) ==
    IF i > Len(s) \/ s[i] = "\n" THEN 0
    ELSE IF s[i] = q THEN i
    ELSE IF s[i] = "\\" THEN ScanQuoted(s, i + 2, q)
    ELSE ScanQuoted(s, i + 1, q)

\* the STRING terminal (common.ESCAPED_STRING) and its callback sk.value[1:-1],
\* and the resource rule with resource(sk[0].value[1:-1])
Quoted(s, j, q) ==
    LET e == ScanQuoted(s, j + 1, q)
    IN IF e = 0 THEN Fail
       ELSE Ok(e + 1, IF q = "\"" THEN StrV(SubSeq(s, j + 1, e - 1))
                      ELSE ResV(SubSeq(s, j + 1, e - 1)))

\* TreeToDmmData.treepath: path('/' + '/'.join(sk))
treepath(sk) == PathV(<<"/">> \o Join(sk, <<"/">>))

\* treepath: ("/" CNAME)+
RECURSIVE ParseTreepath(_, _, _)
ParseTreepath(s, i, sk) ==
    ThenElse(Tok(s, i, <<"/">>),
             LAMBDA t : Then(CNAME(s, t.pos),
                             LAMBDA c : ParseTreepath(s, c.pos, Append(sk, c.val))),
             IF Len(sk) = 0 THEN Fail ELSE Ok(i, treepath(sk)))

\* prop_value: dmlist | SIGNED_INT | INT | FLOAT | STRING | treepath | NULL | resource
\* dmlist: "list(" (prop_value | kv_pair) ("," (prop_value | kv_pair))* ")"
\* kv_pair: STRING "=" prop_value, with kv_pair's callback {sk[0]: sk[1]}
RECURSIVE ParsePropValue(_, _), ParseListItem(_, _), ParseListRest(_, _, _)
ParsePropValueAt(s, j) ==
    IF j > Len(s) THEN Fail
    ELSE IF At(s, j, <<"l", "i", "s", "t", "(">>)
    THEN Then(ParseListItem(s, j + 5),
              LAMBDA first : ParseListRest(s, first.pos, <<first.val>>))
    ELSE IF s[j] \in Digits \cup {"+", "-", "."} THEN Number(s, j)
    ELSE IF s[j] = "\"" THEN Quoted(s, j, "\"")
    ELSE IF s[j] = "'" THEN Quoted(s, j, "'")
    ELSE IF s[j] = "/" THEN ParseTreepath(s, j, <<>>)
    ELSE IF At(s, j, <<"n", "u", "l", "l">>) THEN Ok(j + 4, NullV)
    ELSE Fail

ParsePropValue(s, i) == ParsePropValueAt(s, SkipWS(s, i))

\* a STRING followed by "=" opens a kv_pair; any other value stands alone
ListItemAfter(s, v) ==
    IF v.val.t = "str"
    THEN ThenElse(Tok(s, v.pos, <<"=">>),
                  LAMBDA eq : Then(ParsePropValue(s, eq.pos),
                                   LAMBDA w : Ok(w.pos, DictV(v.val.s, w.val))),
                  v)
    ELSE v

ParseListItem(s, i) == Then(ParsePropValue(s, i), LAMBDA v : ListItemAfter(s, v))

ParseListRest(s, i, l) ==
    ThenElse(Tok(s, i, <<")">>),
             LAMBDA close : Ok(close.pos, ListV(l)),
             Then(Tok(s, i, <<",">>),
                  LAMBDA c : Then(ParseListItem(s, c.pos),
                                  LAMBDA item : ParseListRest(s, item.pos, Append(l, item.val)))))

\* ------------------------------------------------- the tree-to-model pass

\* d[k] = v on an insertion-ordered dict, kept as a sequence of [k, v]: an
\* existing key keeps its position, a new key goes last
DictSet(d, k, v) ==
    IF \E i \in 1..Len(d) : d[i].k = k
    THEN [i \in 1..Len(d) |-> IF d[i].k = k THEN [k |-> k, v |-> v] ELSE d[i]]
    ELSE Append(d, [k |-> k, v |-> v])

DictHas(d, k) == \E i \in 1..Len(d) : d[i].k = k
DictGet(d, k) == d[CHOOSE i \in 1..Len(d) : d[i].k = k].v
DictKeys(d) == [i \in 1..Len(d) |-> d[i].k]

\* the mutant: the first declaration of a name is kept
RECURSIVE datum_props_first(_)
datum_props_first(sk) ==
    IF Len(sk) = 0 THEN <<>>
    ELSE IF DictHas(datum_props_first(SubSeq(sk, 1, Len(sk) - 1)), sk[Len(sk)].k)
    THEN datum_props_first(SubSeq(sk, 1, Len(sk) - 1))
    ELSE Append(datum_props_first(SubSeq(sk, 1, Len(sk) - 1)), sk[Len(sk)])

\* TreeToDmmData.datum_props: result.update(kv) for each datum_prop {name: value}
RECURSIVE datum_props(_)
datum_props(sk) ==
    IF Len(sk) = 0 THEN <<>>
    ELSE DictSet(datum_props(SubSeq(sk, 1, Len(sk) - 1)), sk[Len(sk)].k, sk[Len(sk)].v)

\* the mutant: 'values' is set for every datum, empty when no block follows
tile_datum_with_values(name, hasProps, props) ==
    [name |-> name, has |-> TRUE, values |-> IF hasProps THEN props ELSE <<>>]

\* TreeToDmmData.tile_datum: {'name': path} and, when a property block follows,
\* 'values' copied from it in order; has is "'values' in datum"
tile_datum(name, hasProps, props) ==
    [name |-> name, has |-> hasProps, values |-> IF hasProps THEN props ELSE <<>>]

\* datum_props: "{" datum_prop (";" datum_prop)* "}", datum_prop: CNAME "=" prop_value
\* with datum_prop's callback {sk[0]: sk[1]}
RECURSIVE ParseProps(_, _, _)
PropsAfter(s, sk, v) ==
    ThenElse(Tok(s, v.pos, <<";">>),
             LAMBDA semi : ParseProps(s, semi.pos, sk),
             Then(Tok(s, v.pos, <<"}">>), LAMBDA close : Ok(close.pos, datum_props(sk))))

ParseProps(s, i, sk) ==
    Then(CNAME(s, i),
         LAMBDA k : Then(Tok(s, k.pos, <<"=">>),
         LAMBDA eq : Then(ParsePropValue(s, eq.pos),
         LAMBDA v : PropsAfter(s, Append(sk, [k |-> k.val, v |-> v.val]), v))))

\* tile_datum: treepath | treepath datum_props
ParseDatum(s, i) ==
    Then(ParseTreepath(s, i, <<>>),
         LAMBDA name :
             ThenElse(Tok(s, name.pos, <<"{">>),
                      LAMBDA open : Then(ParseProps(s, open.pos, <<>>),
                                         LAMBDA props :
                                             Ok(props.pos, tile_datum(name.val, TRUE, props.val))),
                      Ok(name.pos, tile_datum(name.val, FALSE, <<>>))))

\* key_tile: tile_datum ("," tile_datum)*, with key_tile's callback Tile(sk)
RECURSIVE ParseTile(_, _, _)
TileAfter(s, sk, d) ==
    ThenElse(Tok(s, d.pos, <<",">>),
             LAMBDA c : ParseTile(s, c.pos, sk),
             Ok(d.pos, sk))

ParseTile(s, i, sk) ==
    Then(ParseDatum(s, i), LAMBDA d : TileAfter(s, Append(sk, d.val), d))

\* whether one of the tokens that let the parser reduce a finished
\* declaration comes next: the end of the text or one of the characters in S
Reduces(s, i, S) == LET j == SkipWS(s, i) IN j > Len(s) \/ s[j] \in S

\* dmm_keydecl: "\"" dmm_key "\"" "=" "(" key_tile ")"; the position after it,
\* the key and the tile
ParseKeydecl(s, i) ==
    Then(Tok(s, i, <<"\"">>),
         LAMBDA q1 : Then(CNAME(s, q1.pos),
         LAMBDA k : Then(Tok(s, k.pos, <<"\"">>),
         LAMBDA q2 : Then(Tok(s, q2.pos, <<"=">>),
         LAMBDA eq : Then(Tok(s, eq.pos, <<"(">>),
         LAMBDA open : Then(ParseTile(s, open.pos, <<>>),
         LAMBDA tile : Then(Tok(s, tile.pos, <<")">>),
         LAMBDA close :
             IF Reduces(s, close.pos, {"\"", "("})
             THEN Ok(close.pos, [k |-> k.val, v |-> tile.val])
             ELSE Fail)))))))

\* dmm_key*
RECURSIVE ParseRowKeys(_, _, _)
ParseRowKeys(s, i, sk) ==
    ThenElse(CNAME(s, i),
             LAMBDA k : ParseRowKeys(s, k.pos, Append(sk, k.val)),
             Ok(i, sk))

\* dmm_row: "(" INT "," INT "," INT ")" "=" "{\"" dmm_key* "\"}"; the position
\* after it, the coordinates and the keys
ParseRow(s, i) ==
    Then(Tok(s, i, <<"(">>),
         LAMBDA open : Then(INT(s, open.pos),
         LAMBDA x : Then(Tok(s, x.pos, <<",">>),
         LAMBDA c1 : Then(INT(s, c1.pos),
         LAMBDA y : Then(Tok(s, y.pos, <<",">>),
         LAMBDA c2 : Then(INT(s, c2.pos),
         LAMBDA z : Then(Tok(s, z.pos, <<")">>),
         LAMBDA close : Then(Tok(s, close.pos, <<"=">>),
         LAMBDA eq : Then(Tok(s, eq.pos, <<"{", "\"">>),
         LAMBDA lb : Then(ParseRowKeys(s, lb.pos, <<>>),
         LAMBDA row : Then(Tok(s, row.pos, <<"\"", "}">>),
         LAMBDA rb :
             IF Reduces(s, rb.pos, {"("})
             THEN Ok(rb.pos, [k |-> <<x.val, y.val, z.val>>, v |-> row.val])
             ELSE Fail)))))))))))

\* the transformer's tables when the parse ends, ok when the text was accepted
Parsed(ok, keys, map) == [ok |-> ok, keys |-> keys, map |-> map]

\* dmm_map: dmm_row*, each row reduced with TreeToDmmData.dmm_row:
\* self.map[coords] = sk[3:].  The rows reduced before an error stay in map.
RECURSIVE ParseRows(_, _, _, _)
RowsAfter(s, keys, map, r) ==
    IF r.ok THEN ParseRows(s, r.pos, keys, DictSet(map, r.val.k, r.val.v))
    ELSE Parsed(FALSE, keys, map)

ParseRows(s, i, keys, map) ==
    IF SkipWS(s, i) > Len(s) THEN Parsed(TRUE, keys, map)
    ELSE RowsAfter(s, keys, map, ParseRow(s, i))

\* dmm_keydecls: dmm_keydecl*, each declaration reduced with
\* TreeToDmmData.dmm_keydecl: self.keys[sk[0]] = sk[1].  The declarations
\* reduced before an error stay in keys.
RECURSIVE ParseKeydecls(_, _, _, _)
KeydeclsAfter(s, keys, map, d) ==
    IF d.ok THEN ParseKeydecls(s, d.pos, DictSet(keys, d.val.k, d.val.v), map)
    ELSE Parsed(FALSE, keys, map)

ParseKeydecls(s, i, keys, map) ==
    IF Tok(s, i, <<"\"">>).ok
    THEN KeydeclsAfter(s, keys, map, ParseKeydecl(s, i))
    ELSE ParseRows(s, i, keys, map)

\* self.parser.parse(dmm_data) with the reader's transformer, whose tables hold
\* keys and map when the parse starts: start: dmm_header dmm_keydecls dmm_map.
\* ok is whether the text was accepted; keys and map are the transformer's
\* tables afterwards, which start() returns as the model when ok
Parse(s, keys, map) ==
    ThenElse(Tok(s, 1, HEADER),
             LAMBDA h : ParseKeydecls(s, h.pos, keys, map),
             Parsed(FALSE, keys, map))

\* ------------------------------------------------------------ the readers

\* the outcome of a Read: how it ended, self.parsed and the transformer's
\* tables afterwards
ReadOut(status, parsed, keys, map) ==
    [status |-> status, parsed |-> parsed, keys |-> keys, map |-> map]

\* Read past the parsed check: self.parsed is set only once parse() returned
ReadParsed(p) ==
    IF p.ok THEN ReadOut("ok", TRUE, p.keys, p.map)
    ELSE ReadOut("ParseError", FALSE, p.keys, p.map)

\* the mutant: Read without the parsed check
Reader_Read_again(parsed, keys, map, text) == ReadParsed(Parse(text, keys, map))

\* mapparse Reader.Read on the text of dmm_filename; the model returned is the
\* transformer itself, so keys and map are the model when the status is ok
Reader_Read(parsed, keys, map, text) ==
    IF parsed THEN ReadOut("RuntimeError", parsed, keys, map)
    ELSE ReadParsed(Parse(text, keys, map))

\* a file at dmi_filename: whether PIL identifies it as an image, whether the
\* image carries a "Description" text chunk and whether DMI_METADATA_GRAMMAR
\* accepts that text
DmiFile(image, description, accepted) ==
    [image |-> image, description |-> description, accepted |-> accepted]

\* the outcome of an icon Read: how it ended and self.parsed afterwards;
\* "None" is a return of None, "ok" a return of the DmiData
IconReadOut(status, parsed) == [status |-> status, parsed |-> parsed]

\* iconparse Reader.Read
IconReader_Read(parsed, file) ==
    IF parsed THEN IconReadOut("RuntimeError", parsed)
    ELSE IF ~file.image THEN IconReadOut("None", parsed)
    ELSE IF ~file.description THEN IconReadOut("None", parsed)
    ELSE IF ~file.accepted THEN IconReadOut("ParseError", parsed)
    ELSE IconReadOut("ok", TRUE)

\* the DmiData that Read returns for the file at dmi_filename
DmiData(dmi_filename) == <<"DmiData", dmi_filename>>

\* how a GetDmiData call ends: the status, the value returned, dmi_datas
\* afterwards, and how the Read it made ended ("none" when it made none)
StoreOut(status, ret, datas, read) ==
    [status |-> status, ret |-> ret, datas |-> datas, read |-> read]

\* self.dmi_datas[p] = Reader(p).Read(); return self.dmi_datas[p], for the
\* outcome rd of the Read on a fresh Reader
Stored(datas, p, rd) ==
    IF rd.status = "None" THEN StoreOut("ok", "None", DictSet(datas, p, "None"), "None")
    ELSE IF rd.status = "ok"
    THEN StoreOut("ok", DmiData(p), DictSet(datas, p, DmiData(p)), "ok")
    ELSE StoreOut(rd.status, "None", datas, rd.status)

\* the mutant: a stored None is read again
GetDmiData_rereading(datas, files, p) ==
    IF DictHas(datas, p) /\ DictGet(datas, p) # "None"
    THEN StoreOut("ok", DictGet(datas, p), datas, "none")
    ELSE Stored(datas, p, IconReader_Read(FALSE, files[p]))

\* ImageStore.GetDmiData for the path p under root
GetDmiData(datas, files, p) ==
    IF DictHas(datas, p) THEN StoreOut("ok", DictGet(datas, p), datas, "none")
    ELSE Stored(datas, p, IconReader_Read(FALSE, files[p]))

\* ---------------------------------------------------------- the Tile API

\* self.d[datum_idx] on a Python list of length n: the 1-based position read,
\* 0 for IndexError; an index from -n to -1 counts from the end
PyIndex(n, idx) ==
    IF 0 <= idx /\ idx < n THEN idx + 1
    ELSE IF -n <= idx /\ idx < 0 THEN n + idx + 1
    ELSE 0

\* path.__eq__(self, o): by path text against a path or a str, None (falsy)
\* against anything else
path_eq(self, o) ==
    IF o.t = "path" THEN self.p = o.p
    ELSE IF o.t = "str" THEN self.p = o.s
    ELSE FALSE

\* path.startswith(self, k) for a str k
path_startswith(self, k) == Len(k) <= Len(self.p) /\ SubSeq(self.p, 1, Len(k)) = k

\* [idx for idx, x in enumerate(d) if hit(x)]: the 0-based indices, in
\* order, of the TRUE entries of hits from position i on
RECURSIVE IndicesWhere(_, _)
IndicesWhere(hits, i) ==
    IF i > Len(hits) THEN <<>>
    ELSE (IF hits[i] THEN <<i - 1>> ELSE <<>>) \o IndicesWhere(hits, i + 1)

\* Tile.get_datums_with_prefix
get_datums_with_prefix(d, prefix) ==
    IndicesWhere([i \in 1..Len(d) |-> path_startswith(d[i].name, prefix)], 1)

\* the mutant: the datums whose path starts with the path asked for
get_datums_of_type_by_prefix(d, path) ==
    get_datums_with_prefix(d, IF path.t = "path" THEN path.p ELSE path.s)

\* Tile.get_datums_of_type
get_datums_of_type(d, path) ==
    IndicesWhere([i \in 1..Len(d) |-> path_eq(d[i].name, path)], 1)

\* the outcome of a Tile call: the status, the tile afterwards, the value returned
TileOut(status, d, val) == [status |-> status, d |-> d, val |-> val]

\* the mutant: the datum's property map replaced by {k: v}
set_value_fresh(d, datum_idx, k, v) ==
    LET at == PyIndex(Len(d), datum_idx)
    IN IF at = 0 THEN TileOut("IndexError", d, NullV)
       ELSE TileOut("ok",
                    [d EXCEPT ![at] = [@ EXCEPT !.has = TRUE,
                                                 !.values = <<[k |-> k, v |-> v]>>]],
                    NullV)

\* Tile.set_value
set_value(d, datum_idx, k, v) ==
    LET at == PyIndex(Len(d), datum_idx)
    IN IF at = 0 THEN TileOut("IndexError", d, NullV)
       ELSE TileOut("ok",
                    [d EXCEPT ![at] = [@ EXCEPT !.has = TRUE,
                                                 !.values = DictSet(@, k, v)]],
                    NullV)

\* the mutant: dict.get, None for a missing property
get_value_or_none(d, datum_idx, k) ==
    LET at == PyIndex(Len(d), datum_idx)
    IN IF at = 0 THEN TileOut("IndexError", d, NullV)
       ELSE IF d[at].has /\ DictHas(d[at].values, k)
       THEN TileOut("ok", d, DictGet(d[at].values, k))
       ELSE TileOut("ok", d, NullV)

\* Tile.get_value: self.d[datum_idx]['values'][k]
get_value(d, datum_idx, k) ==
    LET at == PyIndex(Len(d), datum_idx)
    IN IF at = 0 THEN TileOut("IndexError", d, NullV)
       ELSE IF ~d[at].has THEN TileOut("KeyError", d, NullV)
       ELSE IF ~DictHas(d[at].values, k) THEN TileOut("KeyError", d, NullV)
       ELSE TileOut("ok", d, DictGet(d[at].values, k))

\* Tile.get_propnames
get_propnames(d, datum_idx) ==
    LET at == PyIndex(Len(d), datum_idx)
    IN IF at = 0 THEN TileOut("IndexError", d, <<>>)
       ELSE IF ~d[at].has THEN TileOut("ok", d, <<>>)
       ELSE TileOut("ok", d, DictKeys(d[at].values))

\* list.pop(idx) for a 0-based idx of the list
Pop(d, idx) == SubSeq(d, 1, idx) \o SubSeq(d, idx + 2, Len(d))

\* for idx in order: self.d.pop(idx)
RECURSIVE PopAll(_, _)
PopAll(d, order) ==
    IF Len(order) = 0 THEN d ELSE PopAll(Pop(d, order[1]), Tail(order))

Reversed(l) == [i \in 1..Len(l) |-> l[Len(l) + 1 - i]]

\* the mutant: the indices popped in ascending order
del_datums_of_type_ascending(d, path) ==
    TileOut("ok", PopAll(d, get_datums_of_type(d, path)), NullV)

\* Tile.del_datums_of_type: the matching indices, popped in descending order
del_datums_of_type(d, path) ==
    LET dels == get_datums_of_type(d, path)
    IN TileOut("ok", PopAll(d, Reversed(dels)), NullV)

\* ------------------------------------------------------------ Writer

\* Writer.write_datum
write_datum(datum) ==
    datum.name.p
    \o (IF datum.has
        THEN <<"{", "\n", "\t">>
             \o Join([i \in 1..Len(datum.values) |->
                         datum.values[i].k \o <<" ", "=", " ">> \o write_val(datum.values[i].v)],
                     <<";", "\n", "\t">>)
             \o <<"\n", "\t", "}">>
        ELSE <<>>)

\* Writer.write_tile
write_tile(tile) == Join([i \in 1..Len(tile) |-> write_datum(tile[i])], <<",", "\n">>)

\* Writer.write_key
write_key(key, tile) ==
    <<"\"">> \o key \o <<"\"", " ", "=", " ", "(", "\n">> \o write_tile(tile) \o <<")">>

\* Writer.write_keys
write_keys(keys) ==
    Join([i \in 1..Len(keys) |-> write_key(keys[i].k, keys[i].v)], <<"\n">>)

\* Writer.write_map
write_map(map) ==
    Join([i \in 1..Len(map) |->
            <<"(">> \o NatStr(map[i].k[1]) \o <<",">> \o NatStr(map[i].k[2]) \o <<",">>
            \o NatStr(map[i].k[3]) \o <<")", " ", "=", " ", "{", "\"", "\n">>
            \o Join(map[i].v, <<"\n">>) \o <<"\n", "\"", "}">>],
         <<"\n">>)

\* the mutant: the coordinate grid written before the key table
write_file_grid_first(keys, map) ==
    HEADER \o <<"\n">> \o write_map(map) \o <<"\n", "\n">> \o write_keys(keys) \o <<"\n">>

\* Writer.write_file: the text written to the file
write_file(keys, map) ==
    HEADER \o <<"\n">> \o write_keys(keys) \o <<"\n", "\n">> \o write_map(map) \o <<"\n">>

\* whether a call made while the text was built raised
Raised(text) == \E i \in 1..Len(text) : <<text[i]>> = OverflowError

\* how write_file ends and the file it leaves: the header is written before
\* write_keys is called, so an exception leaves the header line alone
WriteOut(text) ==
    IF Raised(text) THEN [status |-> "OverflowError", text |-> HEADER \o <<"\n">>]
    ELSE [status |-> "ok", text |-> text]

\* ----------------------------------------------------------- the inputs

\* a hand-written map: a large integer, a tile [A, B, C, B], a one-datum tile
FileA ==
    HEADER \o
    <<"\n", "\"", "a", "\"", " ", "=", " ", "(", "/", "t", "{", "d", " ", "=",
      " ", "1", "2", "3", "4", "5", "6", "7", ";", " ", "n", " ", "=", " ",
      "\"", "x", "\"", "}", ",", "/", "o", "/", "c", ",", "/", "o", ",", "/",
      "o", "/", "c", ")", "\n", "\"", "b", "\"", " ", "=", " ", "(", "/", "o",
      ")", "\n", "(", "1", ",", "1", ",", "1", ")", " ", "=", " ", "{", "\"",
      "a", " ", "b", "\"", "}", "\n">>

\* a map as the writer lays it out, with a list holding a kv pair
FileB ==
    HEADER \o
    <<"\n", "\"", "a", "\"", " ", "=", " ", "(", "\n", "/", "t", "{", "\n",
      "\t", "d", " ", "=", " ", "1", ";", "\n", "\t", "l", " ", "=", " ", "l",
      "i", "s", "t", "(", "1", ",", " ", "\"", "k", "\"", " ", "=", " ", "2",
      ")", "\n", "\t", "}", ",", "\n", "/", "o", ")", "\n", "\n", "(", "1",
      ",", "1", ",", "1", ")", " ", "=", " ", "{", "\"", "\n", "a", "\n",
      "\"", "}", "\n">>

\* every kind of value, a property declared twice, two grid rows
FileC ==
    HEADER \o
    <<" ", "\"", "a", "\"", " ", "=", " ", "(", "/", "t", "{", "d", " ", "=",
      " ", "2", ";", " ", "f", " ", "=", " ", "0", ".", "5", ";", " ", "z",
      " ", "=", " ", "n", "u", "l", "l", ";", " ", "i", " ", "=", " ", "'",
      "i", ".", "d", "m", "i", "'", ";", " ", "p", " ", "=", " ", "/", "o",
      "/", "c", ";", " ", "m", " ", "=", " ", "-", "5", ";", " ", "g", " ",
      "=", " ", "1", "e", "-", "0", "5", ";", " ", "l", " ", "=", " ", "l",
      "i", "s", "t", "(", "1", ",", "2", ")", ";", " ", "d", " ", "=", " ",
      "1", "0", "0", "0", "0", "0", "0", "}", ")", "\n", "(", "1", ",", "1",
      ",", "1", ")", " ", "=", " ", "{", "\"", "a", "\"", "}", "\n", "(",
      "2", ",", "1", ",", "1", ")", " ", "=", " ", "{", "\"", "a", " ", "a",
      "\"", "}", "\n">>

\* malformed: the second key declaration is not closed
FileD ==
    HEADER \o
    <<"\n", "\"", "c", "\"", " ", "=", " ", "(", "/", "t", ")", "\n", "\"",
      "b", "\"", " ", "=", " ", "(", "/", "o", "\n", "(", "1", ",", "1", ",",
      "1", ")", " ", "=", " ", "{", "\"", "c", "\"", "}", "\n">>

\* malformed: no header
FileE ==
    <<"\"", "a", "\"", " ", "=", " ", "(", "/", "t", ")", "\n">>

\* malformed: the second grid row is not closed
FileF ==
    HEADER \o
    <<"\n", "\"", "c", "\"", " ", "=", " ", "(", "/", "o", ")", "\n", "(",
      "1", ",", "1", ",", "1", ")", " ", "=", " ", "{", "\"", "c", "\"", "}",
      "\n", "(", "2", ",", "1", ",", "1", ")", " ", "=", " ", "{", "\"", "c",
      "\"", "\n">>

\* malformed: a property without a value in the first key declaration
FileG ==
    HEADER \o
    <<"\n", "\"", "a", "\"", " ", "=", " ", "(", "/", "t", "{", "d", " ", "=",
      " ", "}", ")", "\n">>

ValidFiles == {FileA, FileB, FileC}
DmmFiles == ValidFiles \cup {FileD, FileE, FileF, FileG}

\* the tiles the parser builds from the valid maps
InitTiles ==
    UNION {{Parse(f, <<>>, <<>>).keys[i].v : i \in 1..Len(Parse(f, <<>>, <<>>).keys)} :
           f \in ValidFiles}

\* ------------------------------------------------- write_val on its inputs

\* the elements the input lists are built from: keyless values and kv pairs
ListElems == {IntV(1), IntV(2), IntV(3),
              DictV(<<"k">>, StrV(<<"v">>)), DictV(<<"k", "2">>, StrV(<<"v", "2">>))}

RECURSIVE SeqsUpTo(_, _)
SeqsUpTo(S, n) ==
    IF n = 0 THEN {<<>>}
    ELSE LET R == SeqsUpTo(S, n - 1)
         IN R \cup {Append(r, x) : r \in {q \in R : Len(q) = n - 1}, x \in S}

NumberInputs ==
    {IntV(n) : n \in {0, 5, -5, 999999, 1000000, 1000001, 1234567, 1500000, 2500000,
                      9500000, 10000000, -1000000, 2000000000}}
    \cup {FloatV(5, 1), FloatV(-5, 1), FloatV(1, 5), FloatV(15, 6), FloatV(1000000, 0),
          FloatV(12345675, 1), FloatV(9999995, 1), FloatV(999999, 0), FloatV(0, 0)}

ValInputs ==
    NumberInputs
    \cup {StrV(<<>>), StrV(<<"v">>), NullV, PathV(<<"/", "a", "/", "b">>),
          ResV(<<"i", ".", "d", "m", "i">>)}
    \cup {ListV(l) : l \in SeqsUpTo(ListElems, MaxListLen)}

ValIdle == /\ wv_v = NullV
           /\ wv_called = FALSE
           /\ wv_ret = <<>>

TileIdle == /\ t_d = <<>>
            /\ t_call = [op |-> "none"]
            /\ t_nops = 0

\* a map Reader just constructed, nothing written
PipelineFresh == /\ r_parsed = FALSE
                 /\ r_keys = <<>>
                 /\ r_map = <<>>
                 /\ r_ret = "none"
                 /\ r_returned = FALSE
                 /\ r_nreads = 0
                 /\ m_nops = 0
                 /\ w_written = FALSE
                 /\ w_text = <<>>
                 /\ w_ret = "none"
                 /\ b_ret = "none"
                 /\ b_keys = <<>>
                 /\ b_map = <<>>
                 /\ w2_written = FALSE
                 /\ w2_text = <<>>

\* an icon Reader just constructed
IconFresh == /\ i_parsed = FALSE
             /\ i_ret = "none"
             /\ i_returned = FALSE
             /\ i_nreads = 0

MapIdle == m_disk = <<>> /\ PipelineFresh
IconIdle == i_file = DmiFile(FALSE, FALSE, FALSE) /\ IconFresh

\* a Linter not constructed
LintIdle == /\ l_checklist = <<>>
            /\ l_failures = <<>>
            /\ l_mapdata = FALSE
            /\ l_nruns = 0
            /\ l_call = [status |-> "none", read |-> FALSE, keys |-> <<>>,
                         map |-> <<>>, prev |-> "none", prevFailures |-> <<>>,
                         prevKeys |-> <<>>, prevMap |-> <<>>]

\* an ImageStore not constructed
StoreIdle == /\ s_files = <<>>
             /\ s_datas = <<>>
             /\ s_call = [op |-> "none"]
             /\ s_ncalls = 0

\* no dmlist and no iota constructed
DmIdle == /\ d_lists = <<>>
          /\ d_add_lists = <<>>
          /\ d_call = [op |-> "none"]
          /\ d_nops = 0
          /\ d_attrs = <<>>
          /\ d_add_vars = <<>>

\* everything outside the map codec, the Tile API and the icon Reader
RestIdle == LintIdle /\ StoreIdle /\ DmIdle

valvars == <<wv_v, wv_called, wv_ret>>
tilevars == <<t_d, t_call, t_nops>>
readvars == <<m_disk, r_parsed, r_keys, r_map, r_ret, r_returned, r_nreads>>
writevars == <<m_nops, w_written, w_text, w_ret, b_ret, b_keys, b_map, w2_written, w2_text>>
iconvars == <<i_file, i_parsed, i_ret, i_returned, i_nreads>>
lintvars == <<l_checklist, l_failures, l_mapdata, l_nruns, l_call>>
storevars == <<s_files, s_datas, s_call, s_ncalls>>
dmvars == <<d_lists, d_add_lists, d_call, d_nops, d_attrs, d_add_vars>>
vars == <<valvars, tilevars, readvars, writevars, iconvars, lintvars, storevars, dmvars>>

InitVal == /\ wv_v \in ValInputs
           /\ wv_called = FALSE
           /\ wv_ret = <<>>
           /\ TileIdle
           /\ MapIdle
           /\ IconIdle
           /\ RestIdle

\* Writer.write_val(v)
CallWriteVal == /\ ~wv_called
                /\ wv_called' = TRUE
                /\ wv_ret' = write_val(wv_v)
                /\ UNCHANGED <<wv_v, tilevars, readvars, writevars, iconvars, lintvars, storevars, dmvars>>

NextVal == CallWriteVal

SpecVal == InitVal /\ [][NextVal]_vars

\* C9 as stated: 1000000 is written with a two-digit exponent, 1e+06, and
\* 999999 as the plain decimal 999999.
C9_TwoDigitExponent ==
    wv_called =>
        /\ wv_v \in {IntV(1000000), FloatV(1000000, 0)} => wv_ret = <<"1", "e", "+", "0", "6">>
        /\ wv_v = IntV(999999) => wv_ret = <<"9", "9", "9", "9", "9", "9">>

\* C9 (large-number formatting), amended: 1000000 is written in scientific
\* notation with the exponent's sign and a three-digit zero-padded exponent,
\* 1e+006, and 999999 as the plain decimal 999999.
C9_LargeNumberFormat ==
    wv_called =>
        /\ wv_v \in {IntV(1000000), FloatV(1000000, 0)}
              => wv_ret = <<"1", "e", "+", "0", "0", "6">>
        /\ wv_v = IntV(999999) => wv_ret = <<"9", "9", "9", "9", "9", "9">>

C9_Witness == wv_called /\ wv_v = IntV(1000000) /\ Len(wv_ret) = 6

\* the list text C10 describes: comma-plus-space next to a key = value
\* element, a bare comma between two keyless elements
RECURSIVE JoinPairwise(_, _)
JoinPairwise(items, parts) ==
    IF Len(parts) = 0 THEN <<>>
    ELSE IF Len(parts) = 1 THEN parts[1]
    ELSE parts[1]
         \o (IF items[1].t = "dict" \/ items[2].t = "dict" THEN <<",", " ">> ELSE <<",">>)
         \o JoinPairwise(Tail(items), Tail(parts))

\* C10 (list spacing rule): in a written list the separator next to a
\* key = value element is ", " and the separator between two keyless elements
\* is ",", in mixed lists too; [1, 2, 3] is written list(1,2,3).
C10_ListSpacing ==
    (wv_called /\ wv_v.t = "list") =>
        wv_ret = <<"l", "i", "s", "t", "(">>
                 \o JoinPairwise(wv_v.items,
                                 [i \in 1..Len(wv_v.items) |-> write_val(wv_v.items[i])])
                 \o <<")">>

\* a text in scientific notation: a mantissa, 'e', the exponent's sign and
\* at least two exponent digits
IsScientific(text) ==
    \E at \in 2..(Len(text) - 3) :
        /\ text[at] = "e"
        /\ text[at + 1] \in {"+", "-"}
        /\ \A j \in (at + 2)..Len(text) : text[j] \in Digits
        /\ \A j \in 1..(at - 1) : text[j] \in Digits \cup {"-", "."}

\* what holds of write_val on an int v: scientific notation when
\* v > 999999, the plain decimal otherwise
ScientificAboveThreshold ==
    (wv_called /\ wv_v.t = "int") =>
        IF wv_v.n > 999999 THEN IsScientific(wv_ret) ELSE wv_ret = IntStr(wv_v.n)

\* C29 (scientific notation by magnitude): write_val writes an int whose
\* magnitude exceeds 999999, negative or positive, in scientific notation
\* with the exponent's sign and at least two exponent digits, and an int of
\* magnitude at most 999999 as its plain decimal.
C29_ScientificByMagnitude ==
    (wv_called /\ wv_v.t = "int") =>
        IF wv_v.n > 999999 \/ wv_v.n < -999999
        THEN IsScientific(wv_ret)
        ELSE wv_ret = IntStr(wv_v.n)

\* ------------------------------------------------ the Tile API on one tile

\* the arguments the calls are made with
PropNames == {<<"d">>, <<"z">>, <<"e">>}
SetVals == {NullV, IntV(7)}
TypeArgs == {StrV(<<"/", "o", "/", "c">>), PathV(<<"/", "o">>), StrV(<<"/", "x">>)}
Prefixes == {<<"/", "o">>, <<"/", "t">>}
\* every index of the tile, one past its end, and -1
Indices(d) == (-1)..Len(d)

InitTile == /\ t_d \in InitTiles
            /\ t_call = [op |-> "none"]
            /\ t_nops = 0
            /\ ValIdle
            /\ MapIdle
            /\ IconIdle
            /\ RestIdle

\* a call is recorded with the tile it was made on and with what it returned
Called(op, idx, k, arg, out) ==
    /\ t_nops < MaxTileOps
    /\ t_nops' = t_nops + 1
    /\ t_d' = out.d
    /\ t_call' = [op |-> op, idx |-> idx, k |-> k, arg |-> arg, before |-> t_d,
                  status |-> out.status, val |-> out.val]
    /\ UNCHANGED <<valvars, readvars, writevars, iconvars, lintvars, storevars, dmvars>>

CallSetValue ==
    \E idx \in Indices(t_d), k \in PropNames, v \in SetVals :
        Called("set_value", idx, k, v, set_value(t_d, idx, k, v))

CallGetValue ==
    \E idx \in Indices(t_d), k \in PropNames :
        Called("get_value", idx, k, NullV, get_value(t_d, idx, k))

CallGetPropnames ==
    \E idx \in Indices(t_d) :
        Called("get_propnames", idx, <<>>, NullV, get_propnames(t_d, idx))

CallDelDatumsOfType ==
    \E path \in TypeArgs :
        Called("del_datums_of_type", 0, <<>>, path, del_datums_of_type(t_d, path))

CallGetDatumsOfType ==
    \E path \in TypeArgs :
        Called("get_datums_of_type", 0, <<>>, path,
               TileOut("ok", t_d, get_datums_of_type(t_d, path)))

CallGetDatumsWithPrefix ==
    \E prefix \in Prefixes :
        Called("get_datums_with_prefix", 0, <<>>, StrV(prefix),
               TileOut("ok", t_d, get_datums_with_prefix(t_d, prefix)))

NextTile == \/ CallSetValue
            \/ CallGetValue
            \/ CallGetPropnames
            \/ CallDelDatumsOfType
            \/ CallGetDatumsOfType
            \/ CallGetDatumsWithPrefix

SpecTile == InitTile /\ [][NextTile]_vars

\* the datum a valid index names in the tile the last call was made on
CallAt == PyIndex(Len(t_call.before), t_call.idx)

\* the text of the type a del_datums_of_type argument names
TypeText(x) == IF x.t = "path" THEN x.p ELSE x.s

\* C6 (deletion stability): del_datums_of_type(X) leaves exactly the datums
\* whose type path differs from X, in their original order and unchanged.
C6_DeletionStability ==
    t_call.op = "del_datums_of_type" =>
        /\ t_call.status = "ok"
        /\ t_d = SelectSeq(t_call.before, LAMBDA x : x.name.p # TypeText(t_call.arg))

\* the tile [A, B, C, B] after deleting type B: two datums removed, two left
C6_Witness ==
    /\ t_call.op = "del_datums_of_type"
    /\ Len(t_call.before) = 4
    /\ Len(t_d) = 2
    /\ t_call.before[2] = t_call.before[4]
    /\ t_d = <<t_call.before[1], t_call.before[3]>>

\* C7 (unknown-key lookup): get_value of a property the datum does not hold,
\* with or without a property map, raises KeyError and returns nothing;
\* get_value of a property whose value is null returns null.
C7_UnknownKeyLookup ==
    (t_call.op = "get_value" /\ CallAt # 0) =>
        LET datum == t_call.before[CallAt]
            held == datum.has /\ \E i \in 1..Len(datum.values) : datum.values[i].k = t_call.k
        IN /\ ~held => t_call.status = "KeyError"
           /\ held => /\ t_call.status = "ok"
                      /\ \E i \in 1..Len(datum.values) :
                            datum.values[i] = [k |-> t_call.k, v |-> t_call.val]
           /\ t_d = t_call.before

\* a lookup on a datum with no property map at all
C7_Witness ==
    /\ t_call.op = "get_value"
    /\ CallAt # 0
    /\ ~t_call.before[CallAt].has
    /\ t_call.status = "KeyError"

\* C8 (set_value frame): set_value(i, k, v) makes get_value(i, k) return v,
\* creates the property map if absent, keeps every other property's value and
\* position (an existing k keeps its place, a new k goes last) and leaves the
\* other datums and the datum order unchanged.
C8_SetValueFrame ==
    (t_call.op = "set_value" /\ CallAt # 0) =>
        LET old == t_call.before[CallAt]
            new == t_d[CallAt]
            oldnames == [i \in 1..Len(old.values) |-> old.values[i].k]
            newnames == [i \in 1..Len(new.values) |-> new.values[i].k]
            was == \E i \in 1..Len(oldnames) : oldnames[i] = t_call.k
        IN /\ t_call.status = "ok"
           /\ get_value(t_d, t_call.idx, t_call.k) = TileOut("ok", t_d, t_call.arg)
           /\ new.has
           /\ new.name = old.name
           /\ newnames = IF was THEN oldnames ELSE Append(oldnames, t_call.k)
           /\ \A i \in 1..Len(oldnames) :
                 oldnames[i] # t_call.k => new.values[i] = old.values[i]
           /\ Len(t_d) = Len(t_call.before)
           /\ \A j \in 1..Len(t_d) : j # CallAt => t_d[j] = t_call.before[j]

\* an existing property overwritten in a datum that holds others after it
C8_Witness ==
    /\ t_call.op = "set_value"
    /\ CallAt # 0
    /\ Len(t_call.before[CallAt].values) >= 2
    /\ t_call.before[CallAt].values[1].k = t_call.k
    /\ t_call.before[CallAt].values[1].v # t_call.arg
    /\ t_d[CallAt].values[1].v = t_call.arg

\* the datums of the model the reader holds
ModelDatums ==
    UNION {{r_keys[i].v[j] : j \in 1..Len(r_keys[i].v)} : i \in 1..Len(r_keys)}

\* text is the bare type path if the datum has no property, and holds a
\* brace only if the datum has one
BracesOnlyForProps(datum, text) ==
    /\ Len(datum.values) = 0 => text = datum.name.p
    /\ (\E i \in 1..Len(text) : text[i] = "{") => Len(datum.values) >= 1

\* C18 (no properties, no braces): in every model reached by parsing and
\* Tile API operations, a datum with no property is written as its bare
\* type path, and a brace block is written only for a datum that has at
\* least one property.
C18_NoPropsNoBraces ==
    \A datum \in ModelDatums : BracesOnlyForProps(datum, write_datum(datum))

\* a model holding a datum parsed without properties, one parsed with
\* properties, and one given its first property by set_value
C18_Witness ==
    /\ r_returned
    /\ m_nops >= 1
    /\ \E datum \in ModelDatums : ~datum.has
    /\ \E i \in 1..Len(r_keys) : \E j \in 1..Len(r_keys[i].v) :
          /\ r_keys[i].v[j].has
          /\ ~Parse(m_disk, <<>>, <<>>).keys[i].v[j].has

\* whether the text equals p or has p as a proper prefix
EqualsOrExtends(text, p) ==
    \/ text = p
    \/ Len(text) > Len(p) /\ \A i \in 1..Len(p) : text[i] = p[i]

Ascending(l) == \A i \in 1..(Len(l) - 1) : l[i] < l[i + 1]

\* C16 (type queries): get_datums_with_prefix(p) returns, in ascending
\* order, exactly the indices of the datums whose type path equals p or has
\* p as a prefix, get_datums_of_type(p) returns, in ascending order, exactly
\* the indices of the datums whose type path equals p, and neither changes
\* the tile.
C16_TypeQueries ==
    /\ t_call.op = "get_datums_with_prefix" =>
          /\ t_call.status = "ok"
          /\ Ascending(t_call.val)
          /\ {t_call.val[i] : i \in 1..Len(t_call.val)}
             = {j - 1 : j \in {j \in 1..Len(t_call.before) :
                    EqualsOrExtends(t_call.before[j].name.p, t_call.arg.s)}}
          /\ t_d = t_call.before
    /\ t_call.op = "get_datums_of_type" =>
          /\ t_call.status = "ok"
          /\ Ascending(t_call.val)
          /\ {t_call.val[i] : i \in 1..Len(t_call.val)}
             = {j - 1 : j \in {j \in 1..Len(t_call.before) :
                    t_call.before[j].name.p = TypeText(t_call.arg)}}
          /\ t_d = t_call.before

\* get_datums_of_type called on a tile whose matches are not adjacent and
\* which holds a datum of a type that only starts like the one asked for
C16_Witness ==
    /\ t_call.op = "get_datums_of_type"
    /\ t_call.val = <<1, 3>>
    /\ t_call.arg = StrV(<<"/", "o", "/", "c">>)

\* what holds of an index at or past the end of the tile: get_value,
\* set_value and get_propnames end with IndexError and leave the tile as it was
IndexPastEnd ==
    (/\ t_call.op \in {"get_value", "set_value", "get_propnames"}
     /\ t_call.idx >= Len(t_call.before)) =>
        t_call.status = "IndexError" /\ t_d = t_call.before

\* C30 (missing datum index): get_value, set_value and get_propnames called
\* with an index that names no datum of the tile, at or past the end or
\* negative, end with a lookup error and leave the tile as it was.
C30_MissingDatumIndex ==
    (/\ t_call.op \in {"get_value", "set_value", "get_propnames"}
     /\ (t_call.idx >= Len(t_call.before) \/ t_call.idx < 0)) =>
        /\ t_call.status \in {"IndexError", "KeyError"}
        /\ t_d = t_call.before
        /\ t_call.val \in {NullV, <<>>}

\* --------------------------------------- read, mutate, write, read back

\* the values and property names set_value is called with on the model
MapSetVals == {IntV(2000000), FloatV(5, 1), StrV(<<"b", "o", "t">>), ListV(<<>>),
               ListV(<<IntV(1), DictV(<<"k">>, StrV(<<"v">>))>>)}
MapPropNames == {<<"d">>, <<"e">>}

InitMap == /\ m_disk \in DmmFiles
           /\ PipelineFresh
           /\ ValIdle
           /\ TileIdle
           /\ IconIdle
           /\ RestIdle

\* r.Read() on the map Reader
Read ==
    /\ r_nreads < MaxReads
    /\ LET out == Reader_Read(r_parsed, r_keys, r_map, m_disk)
       IN /\ r_parsed' = out.parsed
          /\ r_keys' = out.keys
          /\ r_map' = out.map
          /\ r_ret' = out.status
          /\ r_returned' = (r_returned \/ out.status = "ok")
    /\ r_nreads' = r_nreads + 1
    /\ UNCHANGED <<m_disk, valvars, tilevars, writevars, iconvars, lintvars, storevars, dmvars>>

\* the file at dmm_filename is replaced; Read opens it only while the reader
\* has not parsed
ChangeFile ==
    /\ ~r_parsed
    /\ \E f \in DmmFiles \ {m_disk} : m_disk' = f
    /\ UNCHANGED <<r_parsed, r_keys, r_map, r_ret, r_returned, r_nreads,
                   valvars, tilevars, writevars, iconvars, lintvars, storevars, dmvars>>

\* a Tile call on the tile of the model's ki-th key
Mutated(ki, out) ==
    /\ r_returned
    /\ ~w_written
    /\ m_nops < MaxOps
    /\ m_nops' = m_nops + 1
    /\ r_keys' = [r_keys EXCEPT ![ki].v = out.d]
    /\ UNCHANGED <<m_disk, r_parsed, r_map, r_ret, r_returned, r_nreads,
                   w_written, w_text, w_ret, b_ret, b_keys, b_map, w2_written, w2_text,
                   valvars, tilevars, iconvars, lintvars, storevars, dmvars>>

\* d.keys[key].set_value(idx, k, v)
SetValue ==
    \E ki \in 1..Len(r_keys) :
        \E idx \in 0..(Len(r_keys[ki].v) - 1), k \in MapPropNames, v \in MapSetVals :
            Mutated(ki, set_value(r_keys[ki].v, idx, k, v))

\* d.keys[key].del_datums_of_type(path)
DelDatumsOfType ==
    \E ki \in 1..Len(r_keys), path \in TypeArgs :
        Mutated(ki, del_datums_of_type(r_keys[ki].v, path))

\* a write_file call that ended as out
Wrote(out) ==
    /\ r_returned
    /\ ~w_written
    /\ w_written' = TRUE
    /\ w_text' = out.text
    /\ w_ret' = out.status
    /\ UNCHANGED <<m_nops, b_ret, b_keys, b_map, w2_written, w2_text,
                   readvars, valvars, tilevars, iconvars, lintvars, storevars, dmvars>>

\* Writer(d).write_file(out)
WriteFile == Wrote(WriteOut(write_file(r_keys, r_map)))

\* Reader(out).Read() on a fresh Reader of the file written
ReadBack ==
    /\ w_ret = "ok"
    /\ b_ret = "none"
    /\ LET out == Reader_Read(FALSE, <<>>, <<>>, w_text)
       IN /\ b_ret' = out.status
          /\ b_keys' = out.keys
          /\ b_map' = out.map
    /\ UNCHANGED <<m_nops, w_written, w_text, w_ret, w2_written, w2_text,
                   readvars, valvars, tilevars, iconvars, lintvars, storevars, dmvars>>

\* Writer(model read back).write_file
WriteBack ==
    /\ b_ret = "ok"
    /\ ~w2_written
    /\ w2_written' = TRUE
    /\ w2_text' = write_file(b_keys, b_map)
    /\ UNCHANGED <<m_nops, w_written, w_text, w_ret, b_ret, b_keys, b_map,
                   readvars, valvars, tilevars, iconvars, lintvars, storevars, dmvars>>

NextMap == \/ Read
           \/ ChangeFile
           \/ SetValue
           \/ DelDatumsOfType
           \/ WriteFile
           \/ ReadBack
           \/ WriteBack

SpecMap == InitMap /\ [][NextMap]_vars

\* Python's == on two values: an int and a float are equal when they are the
\* same number, lists and dicts element by element
RECURSIVE ValEq(_, _)
ValEq(a, b) ==
    IF a.t \in {"int", "float"} /\ b.t \in {"int", "float"}
    THEN a.n = b.n /\ (IF a.t = "float" THEN a.k ELSE 0) = (IF b.t = "float" THEN b.k ELSE 0)
    ELSE IF a.t # b.t THEN FALSE
    ELSE IF a.t = "list"
    THEN /\ Len(a.items) = Len(b.items)
         /\ \A i \in 1..Len(a.items) : ValEq(a.items[i], b.items[i])
    ELSE IF a.t = "dict" THEN a.k = b.k /\ ValEq(a.v, b.v)
    ELSE a = b

\* two datums equal in content: the type path, whether there is a property
\* map, the property names in order and their values
DatumEq(x, y) ==
    /\ x.name = y.name
    /\ x.has = y.has
    /\ Len(x.values) = Len(y.values)
    /\ \A i \in 1..Len(x.values) :
          x.values[i].k = y.values[i].k /\ ValEq(x.values[i].v, y.values[i].v)

\* two models equal in content: the keys in order, each key's datums in
\* order, and the grid rows
ModelEq(keys1, map1, keys2, map2) ==
    /\ Len(keys1) = Len(keys2)
    /\ \A i \in 1..Len(keys1) :
          /\ keys1[i].k = keys2[i].k
          /\ Len(keys1[i].v) = Len(keys2[i].v)
          /\ \A j \in 1..Len(keys1[i].v) : DatumEq(keys1[i].v[j], keys2[i].v[j])
    /\ map1 = map2

\* C1 (writer fixed point): when a text the writer produced is parsed into a
\* model and that model is written again, the second text is identical to
\* the first.
C1_WriterFixedPoint == w2_written => w2_text = w_text

\* a written model that was mutated, read back with different content (a
\* large integer comes back as a float) and written again
C1_Witness ==
    /\ w2_written
    /\ m_nops >= 1
    /\ ~ModelEq(b_keys, b_map, r_keys, r_map)
    /\ w2_text = w_text

\* C2 (content round-trip): the model parsed from a valid text, written
\* without any mutation and read back, is accepted and equal in content to
\* the model that was written: keys, datums, property names and values
\* (numbers included) and grid rows.
C2_ContentRoundTrip ==
    (b_ret # "none" /\ m_nops = 0) =>
        /\ b_ret = "ok"
        /\ ModelEq(b_keys, b_map, r_keys, r_map)

\* C3 (round-trip after mutation): the text written from a parsed model after
\* set_value and del_datums_of_type calls is accepted by the grammar, and the
\* model read back from it is equal in content to the mutated model.
C3_RoundTripAfterMutation ==
    (b_ret # "none" /\ m_nops >= 1) =>
        /\ b_ret = "ok"
        /\ ModelEq(b_keys, b_map, r_keys, r_map)

\* C4 (no partial model on failure): after a Read that failed with a parse
\* error the reader's keys and map tables are empty, and a Read that succeeds
\* returns exactly the content of the text it parsed.
C4_NoPartialModel ==
    /\ r_ret = "ParseError" => (r_keys = <<>> /\ r_map = <<>>)
    /\ (r_ret = "ok" /\ m_nops = 0) => Parsed(TRUE, r_keys, r_map) = Parse(m_disk, <<>>, <<>>)

RECURSIVE LinesFrom(_, _)
\* the line of t from position i to the newline at e, then the lines after it
LineTo(t, i, e) == <<SubSeq(t, i, e - 1)>> \o LinesFrom(t, e + 1)

\* the lines of t from position i on, t ending with a newline
LinesFrom(t, i) ==
    IF i > Len(t) THEN <<>>
    ELSE LineTo(t, i, CHOOSE e \in i..Len(t) : t[e] = "\n" /\ \A k \in i..(e - 1) : t[k] # "\n")

\* the lines of a text: the runs between newlines, a final newline ending
\* the last line
SplitLines(text) ==
    LET t == IF Len(text) > 0 /\ text[Len(text)] # "\n" THEN Append(text, "\n") ELSE text
    IN LinesFrom(t, 1)

\* the positions of the lines of ls that satisfy Is
LineNumbers(ls, Is(_)) == {i \in 1..Len(ls) : Is(ls[i])}

\* a line that opens a key block: "key" = (
IsKeyOpener(ln) == Len(ln) >= 2 /\ ln[1] = "\"" /\ ln[Len(ln)] = "("

\* a line that opens a grid block: (x,y,z) = {"
IsGridOpener(ln) == Len(ln) >= 2 /\ ln[1] = "(" /\ ln[Len(ln)] = "\""

IsBlank(ln) == Len(ln) = 0

\* the lines of ls at the positions S, in order
LinesAt(ls, S) == SelectSeq([i \in 1..Len(ls) |-> IF i \in S THEN <<ls[i]>> ELSE <<>>],
                            LAMBDA x : Len(x) = 1)

\* the key-block openers and grid-block openers a model calls for, in the
\* iteration order of its tables
KeyOpenersOf(keys) ==
    [i \in 1..Len(keys) |-> <<<<"\"">> \o keys[i].k \o <<"\"", " ", "=", " ", "(">>>>]
GridOpenersOf(map) ==
    [i \in 1..Len(map) |->
        <<<<"(">> \o IntStr(map[i].k[1]) \o <<",">> \o IntStr(map[i].k[2]) \o <<",">>
          \o IntStr(map[i].k[3]) \o <<")", " ", "=", " ", "{", "\"">>>>]

\* the header line first, one block per key in the key table's order, one
\* block per coordinate in the grid's order, every key block before every
\* grid block
SectionsInOrder(ls, keys, map) ==
    /\ Len(ls) >= 1
    /\ ls[1] = HEADER
    /\ LinesAt(ls, LineNumbers(ls, IsKeyOpener)) = KeyOpenersOf(keys)
    /\ LinesAt(ls, LineNumbers(ls, IsGridOpener)) = GridOpenersOf(map)
    /\ \A k \in LineNumbers(ls, IsKeyOpener), g \in LineNumbers(ls, IsGridOpener) : k < g

RECURSIVE AllDatums(_, _)
AllDatums(keys, i) ==
    IF i > Len(keys) THEN <<>> ELSE keys[i].v \o AllDatums(keys, i + 1)

\* the positions in a map text where a property block opens (a brace not
\* followed by a quote), and the position where the block opened at i closes
\* (for texts whose strings hold no brace and no semicolon)
PropBlocks(s) == {i \in 1..(Len(s) - 1) : s[i] = "{" /\ s[i + 1] # "\""}
BlockEnd(s, i) == CHOOSE j \in (i + 1)..Len(s) : s[j] = "}" /\ \A m \in (i + 1)..(j - 1) : s[m] # "}"

\* the positions where the declarations of the block opened at i start
DeclStarts(s, i) ==
    {i + 1} \cup {j + 1 : j \in {m \in (i + 1)..(BlockEnd(s, i) - 1) : s[m] = ";"}}

\* the declaration that starts with the name k: the name and the value read
\* after the equals sign
DeclOf(s, k) == [k |-> k.val, v |-> ParsePropValue(s, Tok(s, k.pos, <<"=">>).pos).val]
DeclAt(s, p) == DeclOf(s, CNAME(s, p))

\* where the name k stands in the properties of a datum
PropIndex(datum, k) == CHOOSE i \in 1..Len(datum.values) : datum.values[i].k = k

\* a datum parsed from the block opened at b: each declared name once, with
\* the value of its last declaration, nothing else, and the names declared
\* once in the order of their declarations
UniqueProps(s, b, datum) ==
    /\ \A i, j \in 1..Len(datum.values) : datum.values[i].k = datum.values[j].k => i = j
    /\ \A i \in 1..Len(datum.values) : \E p \in DeclStarts(s, b) :
          DeclAt(s, p).k = datum.values[i].k
    /\ \A p \in DeclStarts(s, b) :
          /\ DictHas(datum.values, DeclAt(s, p).k)
          /\ (\A q \in DeclStarts(s, b) : DeclAt(s, q).k = DeclAt(s, p).k => q <= p)
             => DictGet(datum.values, DeclAt(s, p).k) = DeclAt(s, p).v
    /\ \A p, q \in DeclStarts(s, b) :
          (/\ p < q
           /\ \A r \in DeclStarts(s, b) \ {p} : DeclAt(s, r).k # DeclAt(s, p).k
           /\ \A r \in DeclStarts(s, b) \ {q} : DeclAt(s, r).k # DeclAt(s, q).k)
          => PropIndex(datum, DeclAt(s, p).k) < PropIndex(datum, DeclAt(s, q).k)

\* the datums of keys that have a property map, in order
WithProps(keys) == SelectSeq(AllDatums(keys, 1), LAMBDA datum : datum.has)

\* the n-th property block of a text
BlockNo(s, n) ==
    CHOOSE b \in PropBlocks(s) : Cardinality({c \in PropBlocks(s) : c <= b}) = n

\* C26 (unique property names): in the model a successful parse returned,
\* every datum with a property block holds each name its text declares
\* exactly once, with the value of the last declaration of that name, and
\* the names declared once stand in their parse order.
C26_UniqueProps ==
    (r_ret = "ok" /\ m_nops = 0) =>
        /\ Len(WithProps(r_keys)) = Cardinality(PropBlocks(m_disk))
        /\ \A n \in 1..Len(WithProps(r_keys)) :
              UniqueProps(m_disk, BlockNo(m_disk, n), WithProps(r_keys)[n])

\* a parsed datum whose text declares one name twice with different values
C26_Witness ==
    /\ r_ret = "ok"
    /\ m_nops = 0
    /\ \E b \in PropBlocks(m_disk) : \E p, q \in DeclStarts(m_disk, b) :
          /\ p < q
          /\ DeclAt(m_disk, p).k = DeclAt(m_disk, q).k
          /\ DeclAt(m_disk, p).v # DeclAt(m_disk, q).v
          /\ \E r \in DeclStarts(m_disk, b) : p < r /\ r < q

\* ------------------------------------------------------------ the linter

\* Severity.WARNING
WARNING == 2

\* the map height perform_checks flips the vertical axis against
MapHeight == 256

CheckResult(severity, message) == [severity |-> severity, message |-> message]

\* PipeVentChecker.PIPE_PREFIXES
PIPE_PREFIXES ==
    <<
      <<"/", "o", "b", "j", "/", "m", "a", "c", "h", "i", "n", "e", "r", "y", "/",
        "a", "t", "m", "o", "s", "p", "h", "e", "r", "i", "c", "s", "/", "p", "i",
        "p", "e", "/", "m", "a", "n", "i", "f", "o", "l", "d", "/", "h", "i", "d",
        "d", "e", "n", "/", "s", "u", "p", "p", "l", "y">>,
      <<"/", "o", "b", "j", "/", "m", "a", "c", "h", "i", "n", "e", "r", "y", "/",
        "a", "t", "m", "o", "s", "p", "h", "e", "r", "i", "c", "s", "/", "p", "i",
        "p", "e", "/", "s", "i", "m", "p", "l", "e", "/", "h", "i", "d", "d", "e",
        "n", "/", "s", "c", "r", "u", "b", "b", "e", "r", "s">>>>

\* PipeVentChecker.UNARY_PREFIXES
UNARY_PREFIXES ==
    <<
      <<"/", "o", "b", "j", "/", "m", "a", "c", "h", "i", "n", "e", "r", "y", "/",
        "a", "t", "m", "o", "s", "p", "h", "e", "r", "i", "c", "s", "/", "u", "n",
        "a", "r", "y">>>>

\* the type CableNodeChecker exempts
ReinforcedWindowSpawner ==
      <<"/", "o", "b", "j", "/", "e", "f", "f", "e", "c", "t", "/", "s", "p", "a",
        "w", "n", "e", "r", "/", "w", "i", "n", "d", "o", "w", "/", "r", "e", "i",
        "n", "f", "o", "r", "c", "e", "d">>

\* the type CableNodeChecker counts
Cable ==
      <<"/", "o", "b", "j", "/", "s", "t", "r", "u", "c", "t", "u", "r", "e", "/",
        "c", "a", "b", "l", "e">>

\* any(ls) for a list of lists
PyAny(ls) == \E i \in 1..Len(ls) : Len(ls[i]) > 0

\* PipeVentChecker.perform_check
PipeVentChecker(tile) ==
    IF /\ PyAny([i \in 1..Len(PIPE_PREFIXES) |->
                 get_datums_with_prefix(tile, PIPE_PREFIXES[i])])
       /\ PyAny([i \in 1..Len(UNARY_PREFIXES) |->
                 get_datums_with_prefix(tile, UNARY_PREFIXES[i])])
    THEN <<CheckResult(WARNING, "pipe on same tile as vent or scrubber")>>
    ELSE <<>>

\* v == 0 for a parsed value or a default
PyEqZero(v) == v.t \in {"int", "float"} /\ v.n = 0

\* tile.get_value(cable, k) if k in tile.get_propnames(cable) else default
CableDir(tile, cable, k, default) ==
    IF \E i \in 1..Len(get_propnames(tile, cable).val) :
           get_propnames(tile, cable).val[i] = k
    THEN get_value(tile, cable, k).val
    ELSE default

\* the cables of the tile that count as center nodes: d1 == 0 or d2 == 0,
\* with the obj defaults d1 = 0, d2 = 1
CenterNodes(tile, cables) ==
    {i \in 1..Len(cables) :
        \/ PyEqZero(CableDir(tile, cables[i], <<"d", "1">>, IntV(0)))
        \/ PyEqZero(CableDir(tile, cables[i], <<"d", "2">>, IntV(1)))}

\* the mutant: a reinforced window spawner exempts nothing
CableNodeChecker_no_exemption(tile) ==
    IF Len(get_datums_of_type(tile, StrV(Cable))) <= 1 THEN <<>>
    ELSE IF Cardinality(CenterNodes(tile, get_datums_of_type(tile, StrV(Cable)))) > 1
    THEN <<CheckResult(WARNING, "tile has multiple center cable nodes")>>
    ELSE <<>>

\* CableNodeChecker.perform_check
CableNodeChecker(tile) ==
    IF Len(get_datums_of_type(tile, StrV(ReinforcedWindowSpawner))) > 0 THEN <<>>
    ELSE IF Len(get_datums_of_type(tile, StrV(Cable))) <= 1 THEN <<>>
    ELSE IF Cardinality(CenterNodes(tile, get_datums_of_type(tile, StrV(Cable)))) > 1
    THEN <<CheckResult(WARNING, "tile has multiple center cable nodes")>>
    ELSE <<>>

\* issubclass(check, SingleTileChecker) for the classes of linter.py
IsSingleTileChecker(check) ==
    check \in {"SingleTileChecker", "PipeVentChecker", "CableNodeChecker"}

\* check().perform_check(tile) for a concrete check
perform_check(check, tile) ==
    IF check = "PipeVentChecker" THEN PipeVentChecker(tile)
    ELSE IF check = "CableNodeChecker" THEN CableNodeChecker(tile)
    ELSE <<>>

\* the results appended for one tile: for each checkresults of all_findings,
\* in checklist order, each result of it
RECURSIVE TileFindings(_, _, _)
TileFindings(checklist, i, tile) ==
    IF i > Len(checklist) THEN <<>>
    ELSE (IF IsSingleTileChecker(checklist[i])
          THEN perform_check(checklist[i], tile) ELSE <<>>)
         \o TileFindings(checklist, i + 1, tile)

\* the cells of a grid row in order, each with flipped_coords = (x, 256 - y, z)
\* for y counted from 1 along the row
RowCells(row) ==
    [y \in 1..Len(row.v) |->
        [coords |-> <<row.k[1], MapHeight - y, row.k[3]>>, key |-> row.v[y]]]

\* the cells of the grid in the order perform_checks visits them
RECURSIVE Cells(_, _)
Cells(map, i) ==
    IF i > Len(map) THEN <<>> ELSE RowCells(map[i]) \o Cells(map, i + 1)

\* lint_failures after the results of one cell: the coordinate is created
\* when the first non-empty checkresults arrives, and the results appended
Recorded(failures, coords, results) ==
    IF Len(results) = 0 THEN failures
    ELSE IF DictHas(failures, coords)
    THEN DictSet(failures, coords, DictGet(failures, coords) \o results)
    ELSE DictSet(failures, coords, results)

\* how a perform_checks call ends: the status, lint_failures, whether
\* self.mapdata is set, whether reader.Read was called, and the reader
LintOut(status, failures, read, rd) ==
    [status |-> status, failures |-> failures, read |-> read,
     mapdata |-> (rd.status = "ok"), parsed |-> rd.parsed, keys |-> rd.keys,
     map |-> rd.map]

\* the loop of perform_checks from the i-th cell on: mapdata.keys[key]
\* raises KeyError for a key the table lacks, and SingleTileChecker's own
\* perform_check raises NotImplementedError
RECURSIVE CheckCells(_, _, _, _, _, _)
CheckCells(cells, i, checklist, failures, read, rd) ==
    IF i > Len(cells) THEN LintOut("ok", failures, read, rd)
    ELSE IF ~DictHas(rd.keys, cells[i].key)
    THEN LintOut("KeyError", failures, read, rd)
    ELSE IF \E c \in 1..Len(checklist) : checklist[c] = "SingleTileChecker"
    THEN LintOut("NotImplementedError", failures, read, rd)
    ELSE CheckCells(cells, i + 1, checklist,
                    Recorded(failures, cells[i].coords,
                             TileFindings(checklist, 1, DictGet(rd.keys, cells[i].key))),
                    read, rd)

\* perform_checks once self.mapdata is decided: rd is the reader after
\* self.reader.Read(), or the model already held
Checked(checklist, failures, read, rd) ==
    IF rd.status = "ok"
    THEN CheckCells(Cells(rd.map, 1), 1, checklist, failures, read, rd)
    ELSE LintOut(rd.status, failures, read, rd)

\* the mutant: a model already held loses its rows as they are checked
perform_checks_consuming(failures, mapdata, parsed, keys, map, text, checklist) ==
    IF mapdata
    THEN [Checked(checklist, <<>>, FALSE, ReadOut("ok", parsed, keys, map))
             EXCEPT !.map = <<>>]
    ELSE Checked(checklist, <<>>, TRUE, Reader_Read(parsed, keys, map, text))

\* the mutant: lint_failures is not cleared
perform_checks_accumulating(failures, mapdata, parsed, keys, map, text, checklist) ==
    IF mapdata THEN Checked(checklist, failures, FALSE, ReadOut("ok", parsed, keys, map))
    ELSE Checked(checklist, failures, TRUE, Reader_Read(parsed, keys, map, text))

\* Linter.perform_checks: lint_failures.clear(), self.reader.Read() unless
\* self.mapdata is set, then the checks on every cell
perform_checks(failures, mapdata, parsed, keys, map, text, checklist) ==
    IF mapdata THEN Checked(checklist, <<>>, FALSE, ReadOut("ok", parsed, keys, map))
    ELSE Checked(checklist, <<>>, TRUE, Reader_Read(parsed, keys, map, text))

\* ------------------------------------------------------- lint a map file

\* a map with a pipe beside a vent, cables with and without center nodes, a
\* reinforced window spawner and two grid rows of the same column
LintFileA ==
    HEADER \o
    <<"\n", "\"", "a", "\"", " ", "=", " ", "(", "/", "o", "b", "j", "/", "m", "a",
      "c", "h", "i", "n", "e", "r", "y", "/", "a", "t", "m", "o", "s", "p", "h", "e",
      "r", "i", "c", "s", "/", "p", "i", "p", "e", "/", "s", "i", "m", "p", "l", "e",
      "/", "h", "i", "d", "d", "e", "n", "/", "s", "c", "r", "u", "b", "b", "e", "r",
      "s", ",", "/", "o", "b", "j", "/", "m", "a", "c", "h", "i", "n", "e", "r", "y",
      "/", "a", "t", "m", "o", "s", "p", "h", "e", "r", "i", "c", "s", "/", "u", "n",
      "a", "r", "y", "/", "v", ",", "/", "o", "b", "j", "/", "s", "t", "r", "u", "c",
      "t", "u", "r", "e", "/", "c", "a", "b", "l", "e", "{", "d", "1", " ", "=", " ",
      "1", ";", " ", "d", "2", " ", "=", " ", "2", "}", ",", "/", "o", "b", "j", "/",
      "s", "t", "r", "u", "c", "t", "u", "r", "e", "/", "c", "a", "b", "l", "e", "{",
      "d", "2", " ", "=", " ", "0", "}", ")", "\n", "\"", "b", "\"", " ", "=", " ",
      "(", "/", "o", "b", "j", "/", "s", "t", "r", "u", "c", "t", "u", "r", "e", "/",
      "c", "a", "b", "l", "e", ",", "/", "o", "b", "j", "/", "s", "t", "r", "u", "c",
      "t", "u", "r", "e", "/", "c", "a", "b", "l", "e", "{", "d", "1", " ", "=", " ",
      "0", ".", "0", "}", ")", "\n", "\"", "c", "\"", " ", "=", " ", "(", "/", "t",
      ")", "\n", "\"", "w", "\"", " ", "=", " ", "(", "/", "o", "b", "j", "/", "e",
      "f", "f", "e", "c", "t", "/", "s", "p", "a", "w", "n", "e", "r", "/", "w", "i",
      "n", "d", "o", "w", "/", "r", "e", "i", "n", "f", "o", "r", "c", "e", "d", ",",
      "/", "o", "b", "j", "/", "s", "t", "r", "u", "c", "t", "u", "r", "e", "/", "c",
      "a", "b", "l", "e", ",", "/", "o", "b", "j", "/", "s", "t", "r", "u", "c", "t",
      "u", "r", "e", "/", "c", "a", "b", "l", "e", ")", "\n", "(", "1", ",", "1",
      ",", "1", ")", " ", "=", " ", "{", "\"", "a", " ", "c", "\"", "}", "\n", "(",
      "1", ",", "2", ",", "1", ")", " ", "=", " ", "{", "\"", "b", " ", "w", "\"",
      "}", "\n">>

\* a map whose grid names a key the key table lacks
LintFileB ==
    HEADER \o
    <<"\n", "\"", "a", "\"", " ", "=", " ", "(", "/", "o", "b", "j", "/", "s", "t",
      "r", "u", "c", "t", "u", "r", "e", "/", "c", "a", "b", "l", "e", ",", "/", "o",
      "b", "j", "/", "s", "t", "r", "u", "c", "t", "u", "r", "e", "/", "c", "a", "b",
      "l", "e", ")", "\n", "(", "1", ",", "1", ",", "1", ")", " ", "=", " ", "{",
      "\"", "a", " ", "z", "\"", "}", "\n">>

\* a map with one grid row per column
LintFileC ==
    HEADER \o
    <<"\n", "\"", "a", "\"", " ", "=", " ", "(", "/", "o", "b", "j", "/", "m", "a",
      "c", "h", "i", "n", "e", "r", "y", "/", "a", "t", "m", "o", "s", "p", "h", "e",
      "r", "i", "c", "s", "/", "p", "i", "p", "e", "/", "m", "a", "n", "i", "f", "o",
      "l", "d", "/", "h", "i", "d", "d", "e", "n", "/", "s", "u", "p", "p", "l", "y",
      ",", "/", "o", "b", "j", "/", "m", "a", "c", "h", "i", "n", "e", "r", "y", "/",
      "a", "t", "m", "o", "s", "p", "h", "e", "r", "i", "c", "s", "/", "u", "n", "a",
      "r", "y", "/", "x", ")", "\n", "\"", "b", "\"", " ", "=", " ", "(", "/", "o",
      "b", "j", "/", "s", "t", "r", "u", "c", "t", "u", "r", "e", "/", "c", "a", "b",
      "l", "e", ",", "/", "o", "b", "j", "/", "s", "t", "r", "u", "c", "t", "u", "r",
      "e", "/", "c", "a", "b", "l", "e", ")", "\n", "(", "1", ",", "1", ",", "1",
      ")", " ", "=", " ", "{", "\"", "a", " ", "b", "\"", "}", "\n", "(", "2", ",",
      "1", ",", "1", ")", " ", "=", " ", "{", "\"", "b", "\"", "}", "\n">>

\* a map holding the integer 10^309 and a twelve-digit integer
LintFileD ==
    HEADER \o
    <<"\n", "\"", "a", "\"", " ", "=", " ", "(", "/", "t", "{", "n", " ", "=", " ",
      "1", "0", "0", "0", "0", "0", "0", "0", "0", "0", "0", "0", "0", "0", "0", "0",
      "0", "0", "0", "0", "0", "0", "0", "0", "0", "0", "0", "0", "0", "0", "0", "0",
      "0", "0", "0", "0", "0", "0", "0", "0", "0", "0", "0", "0", "0", "0", "0", "0",
      "0", "0", "0", "0", "0", "0", "0", "0", "0", "0", "0", "0", "0", "0", "0", "0",
      "0", "0", "0", "0", "0", "0", "0", "0", "0", "0", "0", "0", "0", "0", "0", "0",
      "0", "0", "0", "0", "0", "0", "0", "0", "0", "0", "0", "0", "0", "0", "0", "0",
      "0", "0", "0", "0", "0", "0", "0", "0", "0", "0", "0", "0", "0", "0", "0", "0",
      "0", "0", "0", "0", "0", "0", "0", "0", "0", "0", "0", "0", "0", "0", "0", "0",
      "0", "0", "0", "0", "0", "0", "0", "0", "0", "0", "0", "0", "0", "0", "0", "0",
      "0", "0", "0", "0", "0", "0", "0", "0", "0", "0", "0", "0", "0", "0", "0", "0",
      "0", "0", "0", "0", "0", "0", "0", "0", "0", "0", "0", "0", "0", "0", "0", "0",
      "0", "0", "0", "0", "0", "0", "0", "0", "0", "0", "0", "0", "0", "0", "0", "0",
      "0", "0", "0", "0", "0", "0", "0", "0", "0", "0", "0", "0", "0", "0", "0", "0",
      "0", "0", "0", "0", "0", "0", "0", "0", "0", "0", "0", "0", "0", "0", "0", "0",
      "0", "0", "0", "0", "0", "0", "0", "0", "0", "0", "0", "0", "0", "0", "0", "0",
      "0", "0", "0", "0", "0", "0", "0", "0", "0", "0", "0", "0", "0", "0", "0", "0",
      "0", "0", "0", "0", "0", "0", "0", "0", "0", "0", "0", "0", "0", "0", "0", "0",
      "0", "0", "0", "0", "0", "0", "0", "0", "0", "0", "0", "0", "0", "0", "0", "0",
      "0", "0", "0", "0", "0", "0", "0", "0", "0", "0", "0", "0", "0", "0", "0", "0",
      "0", "0", "0", "0", "0", "0", ";", " ", "m", " ", "=", " ", "1", "2", "3", "4",
      "5", "6", "7", "8", "9", "0", "1", "2", "}", ")", "\n", "(", "1", ",", "1",
      ",", "1", ")", " ", "=", " ", "{", "\"", "a", "\"", "}", "\n">>

\* the files at dmm_path: four well-formed maps and a malformed one
LintFiles == {LintFileA, LintFileB, LintFileC, LintFileD, FileD}

\* the checklists a Linter is constructed with: classes in order, one of
\* them not a SingleTileChecker, one of them the abstract SingleTileChecker
Checklists ==
    {<<>>, <<"PipeVentChecker">>, <<"CableNodeChecker">>,
     <<"PipeVentChecker", "CableNodeChecker">>,
     <<"CableNodeChecker", "LintChecker", "PipeVentChecker">>,
     <<"PipeVentChecker", "SingleTileChecker">>}

\* the values and types the driver edits cables with
LintSetVals == {IntV(0), IntV(1)}
LintPropNames == {<<"d", "1">>, <<"d", "2">>}
LintTypeArgs == {StrV(Cable), StrV(<<"/", "t">>)}

\* no perform_checks call made yet
NoLintCall ==
    [status |-> "none", read |-> FALSE, keys |-> <<>>, map |-> <<>>,
     prev |-> "none", prevFailures |-> <<>>, prevKeys |-> <<>>, prevMap |-> <<>>]

\* Linter(dmm_path, checklist)
InitLint == /\ m_disk \in LintFiles
            /\ PipelineFresh
            /\ l_checklist \in Checklists
            /\ l_failures = <<>>
            /\ l_mapdata = FALSE
            /\ l_nruns = 0
            /\ l_call = NoLintCall
            /\ ValIdle
            /\ TileIdle
            /\ IconIdle
            /\ StoreIdle
            /\ DmIdle

\* a perform_checks call that ended as out
Ran(out) ==
    /\ l_nruns < MaxRuns
    /\ l_nruns' = l_nruns + 1
    /\ l_failures' = out.failures
    /\ l_mapdata' = out.mapdata
    /\ l_call' = [status |-> out.status, read |-> out.read,
                  keys |-> out.keys, map |-> out.map,
                  prev |-> l_call.status, prevFailures |-> l_failures,
                  prevKeys |-> l_call.keys, prevMap |-> l_call.map]
    /\ r_parsed' = out.parsed
    /\ r_keys' = out.keys
    /\ r_map' = out.map
    /\ r_ret' = IF out.read THEN (IF out.mapdata THEN "ok" ELSE out.status) ELSE r_ret
    /\ r_returned' = (r_returned \/ out.mapdata)
    /\ r_nreads' = IF out.read THEN r_nreads + 1 ELSE r_nreads
    /\ UNCHANGED <<m_disk, l_checklist, valvars, tilevars, writevars, iconvars,
                   storevars, dmvars>>

\* linter.perform_checks()
PerformChecks ==
    Ran(perform_checks(l_failures, l_mapdata, r_parsed, r_keys, r_map, m_disk,
                       l_checklist))

\* the file at dmm_path is replaced; perform_checks opens it only while the
\* reader has not parsed
LintChangeFile ==
    /\ ~r_parsed
    /\ \E f \in LintFiles \ {m_disk} : m_disk' = f
    /\ UNCHANGED <<r_parsed, r_keys, r_map, r_ret, r_returned, r_nreads,
                   valvars, tilevars, writevars, iconvars, lintvars, storevars, dmvars>>

\* linter.mapdata.keys[key].set_value(idx, k, v)
LintSetValue ==
    \E ki \in 1..Len(r_keys) :
        \E idx \in 0..(Len(r_keys[ki].v) - 1), k \in LintPropNames, v \in LintSetVals :
            Mutated(ki, set_value(r_keys[ki].v, idx, k, v))

\* linter.mapdata.keys[key].del_datums_of_type(path)
LintDelDatumsOfType ==
    \E ki \in 1..Len(r_keys), path \in LintTypeArgs :
        Mutated(ki, del_datums_of_type(r_keys[ki].v, path))

NextLint == \/ PerformChecks
            \/ LintChangeFile
            \/ LintSetValue
            \/ LintDelDatumsOfType
            \/ WriteFile

SpecLint == InitLint /\ [][NextLint]_vars

\* the checks of the checklist that flag the tile of a cell: their positions
Flagging(cell) ==
    {c \in 1..Len(l_checklist) :
        /\ IsSingleTileChecker(l_checklist[c])
        /\ Len(perform_check(l_checklist[c], DictGet(r_keys, cell.key))) > 0}

\* the cells of the grid, as a set of positions in visiting order
CellsAt(coords) ==
    {i \in 1..Len(Cells(r_map, 1)) : Cells(r_map, 1)[i].coords = coords}

\* C12 (lint aggregation): after perform_checks returns, a coordinate is in
\* the findings mapping exactly when some check flagged a tile at that
\* coordinate, no entry is an empty list, and a tile flagged by exactly one
\* check of the checklist has exactly that check's finding as its
\* coordinate's list.
C12_LintAggregation ==
    (l_call.status = "ok" /\ l_call.keys = r_keys) =>
        /\ \A i \in 1..Len(Cells(r_map, 1)) :
              DictHas(l_failures, Cells(r_map, 1)[i].coords)
              <=> \E j \in CellsAt(Cells(r_map, 1)[i].coords) :
                      Flagging(Cells(r_map, 1)[j]) # {}
        /\ \A e \in 1..Len(l_failures) :
              /\ CellsAt(l_failures[e].k) # {}
              /\ Len(l_failures[e].v) > 0
        /\ \A i \in 1..Len(Cells(r_map, 1)) :
              \A c \in 1..Len(l_checklist) :
                  Flagging(Cells(r_map, 1)[i]) = {c} =>
                      DictGet(l_failures, Cells(r_map, 1)[i].coords)
                      = perform_check(l_checklist[c],
                                      DictGet(r_keys, Cells(r_map, 1)[i].key))


\* C13 (lint idempotence): a perform_checks call that follows a successful
\* one on an unchanged model succeeds too, does not call the reader again,
\* and leaves the findings equal to those of the earlier call; no call ends
\* in the single-use reader error.
C13_LintIdempotent ==
    /\ l_call.status # "RuntimeError"
    /\ (/\ l_call.prev = "ok"
        /\ l_call.prevKeys = l_call.keys
        /\ l_call.prevMap = l_call.map)
       => /\ l_call.status = "ok"
          /\ ~l_call.read
          /\ l_failures = l_call.prevFailures

\* a second successful run on an unchanged model that has findings
C13_Witness ==
    /\ l_nruns >= 2
    /\ l_call.prev = "ok"
    /\ l_call.status = "ok"
    /\ l_call.prevKeys = l_call.keys
    /\ Len(l_failures) > 0

\* the keys of the key table in its iteration order
KeyNames(keys) == [i \in 1..Len(keys) |-> keys[i].k]

\* C17 (key stability): once a parse has succeeded, no Tile API operation,
\* lint run or write adds, removes, renames or reorders a key of the key
\* table or changes a grid row.
C17_KeyStability ==
    [][r_returned => /\ KeyNames(r_keys') = KeyNames(r_keys)
                     /\ r_map' = r_map]_vars

\* a model linted, changed through the Tile API, linted again and written
C17_Witness ==
    /\ w_ret = "ok"
    /\ m_nops >= 1
    /\ l_nruns >= 2
    /\ l_call.prev = "ok"
    /\ l_call.status = "ok"
    /\ l_call.keys # l_call.prevKeys
    /\ KeyNames(l_call.keys) = KeyNames(l_call.prevKeys)

\* the text after the blank line that ends the key table
GridText(text) ==
    LET B == {i \in 1..(Len(text) - 1) : text[i] = "\n" /\ text[i + 1] = "\n"}
        b == CHOOSE i \in B : \A j \in B : j <= i
    IN SubSeq(text, b + 2, Len(text))

\* C14 (the writer never fails): write_file on a parsed and mutated model
\* ends without an exception, and the grid it wrote holds every row as the
\* model has it, the keys absent from the key table included.
C14_WriterNeverFails ==
    w_written =>
        /\ w_ret = "ok"
        /\ ParseRows(GridText(w_text), 1, <<>>, <<>>) = Parsed(TRUE, <<>>, r_map)

\* what holds of every write that ends without an exception: the grid written
\* holds every row as the model has it
GridVerbatim ==
    w_ret = "ok" =>
        ParseRows(GridText(w_text), 1, <<>>, <<>>) = Parsed(TRUE, <<>>, r_map)

\* the tiles of the model the Linter holds
ModelTiles == {r_keys[i].v : i \in 1..Len(r_keys)}

\* property k of a datum, or the default when the datum has no such property
PropOr(datum, k, default) ==
    IF datum.has /\ \E i \in 1..Len(datum.values) : datum.values[i].k = k
    THEN datum.values[CHOOSE i \in 1..Len(datum.values) : datum.values[i].k = k].v
    ELSE default

\* the number 0, as an int or a float
IsZero(v) == v = IntV(0) \/ (v.t = "float" /\ v.n = 0)

\* the datums of exact type p in a tile, by position
OfExactType(tile, p) == {i \in 1..Len(tile) : tile[i].name.p = p}

\* the cables of a tile with d1 = 0 or d2 = 0, an absent d1 counting as 0
\* and an absent d2 as 1
CenterCables(tile) ==
    {i \in OfExactType(tile, Cable) :
        \/ IsZero(PropOr(tile[i], <<"d", "1">>, IntV(0)))
        \/ IsZero(PropOr(tile[i], <<"d", "2">>, IntV(1)))}

\* C24 (cable nodes): on every tile of the model, CableNodeChecker returns
\* exactly one Warning finding if the tile has no reinforced window spawner,
\* more than one cable, and more than one cable with d1 = 0 or d2 = 0
\* (absent d1 is 0, absent d2 is 1), and no finding otherwise; the Tile
\* calls it makes leave the tile as it is.
C24_CableNodes ==
    \A tile \in ModelTiles :
        /\ CableNodeChecker(tile)
           = IF /\ OfExactType(tile, ReinforcedWindowSpawner) = {}
                /\ Cardinality(OfExactType(tile, Cable)) > 1
                /\ Cardinality(CenterCables(tile)) > 1
             THEN <<[severity |-> WARNING, message |-> "tile has multiple center cable nodes"]>>
             ELSE <<>>
        /\ \A i \in OfExactType(tile, Cable), k \in {<<"d", "1">>, <<"d", "2">>} :
              /\ get_propnames(tile, i - 1).d = tile
              /\ get_value(tile, i - 1, k).d = tile

\* a lint run with CableNodeChecker has recorded a finding on a model that
\* holds a flagged tile, a tile of two cables with one center node, and a
\* tile of two center nodes next to a reinforced window spawner
C24_Witness ==
    /\ l_call.status = "ok"
    /\ l_call.keys = r_keys
    /\ \E c \in 1..Len(l_checklist) : l_checklist[c] = "CableNodeChecker"
    /\ \E e \in 1..Len(l_failures) : \E f \in 1..Len(l_failures[e].v) :
          l_failures[e].v[f].message = "tile has multiple center cable nodes"
    /\ \E tile \in ModelTiles : Len(CableNodeChecker(tile)) = 1
    /\ \E tile \in ModelTiles :
          /\ Cardinality(OfExactType(tile, Cable)) = 2
          /\ Cardinality(CenterCables(tile)) = 1
          /\ OfExactType(tile, ReinforcedWindowSpawner) = {}
    /\ \E tile \in ModelTiles :
          /\ Cardinality(CenterCables(tile)) = 2
          /\ OfExactType(tile, ReinforcedWindowSpawner) # {}
    /\ m_nops >= 1

\* the cells recorded under a findings coordinate: those at the coordinate
\* whose tile some check of the checklist flags
RecordedAt(coords) ==
    {i \in CellsAt(coords) :
        Len(TileFindings(l_checklist, 1, DictGet(r_keys, Cells(r_map, 1)[i].key))) > 0}

\* C25 (one cell per findings coordinate): after perform_checks returns,
\* every coordinate of the findings mapping has the findings of exactly one
\* cell of the grid, and its list is the findings of that cell's tile.
C25_OneCellPerCoordinate ==
    (l_call.status = "ok" /\ l_call.keys = r_keys) =>
        \A e \in 1..Len(l_failures) :
            /\ Cardinality(RecordedAt(l_failures[e].k)) = 1
            /\ \A i \in RecordedAt(l_failures[e].k) :
                  l_failures[e].v
                  = TileFindings(l_checklist, 1, DictGet(r_keys, Cells(r_map, 1)[i].key))

\* what holds of the findings when each grid row is looked at by itself:
\* the cells of one row never share a findings coordinate
RowCellsApart ==
    \A r \in 1..Len(r_map) :
        \A i, j \in 1..Len(RowCells(r_map[r])) :
            i # j => RowCells(r_map[r])[i].coords # RowCells(r_map[r])[j].coords

\* ---------------------------------------------------------------- dmlist

\* an instance of a subclass of iota, by identity
ObjV(id) == [t |-> "iota", id |-> id]

\* a dmlist as an operand, by identity
ListRef(id) == [t |-> "dmlist", id |-> id]

\* a dmlist: self.keys and self.values; the key None is NullV
DmList(keys, values) == [keys |-> keys, values |-> values]

\* how a dmlist operation ends: the status, the value returned, the lists
\* and every iota's _add_lists afterwards
DmOut(status, ret, lists, add) ==
    [status |-> status, ret |-> ret, lists |-> lists, add |-> add]

\* isinstance(x, Number)
IsNumber(x) == x.t \in {"int", "float"}

\* if isinstance(v, iota): v._add_lists.add(self)
Tracked(add, v, self) ==
    IF v.t = "iota" THEN [add EXCEPT ![v.id] = @ \cup {self}] ELSE add

\* dmlist_base.append(value, key)
append(lists, add, self, value, key) ==
    DmOut("ok", NullV,
          [lists EXCEPT ![self] = DmList(Append(@.keys, key), Append(@.values, value))],
          Tracked(Tracked(add, value, self), key, self))

\* the positions of seq whose element equals x, by Python's ==
Matches(seq, x) == {i \in 1..Len(seq) : ValEq(seq[i], x)}

Last(S) == CHOOSE i \in S : \A j \in S : j <= i

\* how a read of a dmlist ends: the status and the value returned
GetOut(status, ret) == [status |-> status, ret |-> ret]

\* the mutant: the first entry whose key equals the key asked for
getitem_first(l, key_or_index) ==
    IF IsNumber(key_or_index) /\ key_or_index.n = 0 THEN GetOut("RuntimeError", NullV)
    ELSE IF IsNumber(key_or_index)
    THEN IF PyIndex(Len(l.keys), key_or_index.n - 1) = 0 THEN GetOut("IndexError", NullV)
         ELSE IF l.keys[PyIndex(Len(l.keys), key_or_index.n - 1)] = NullV
         THEN GetOut("ok", l.values[PyIndex(Len(l.keys), key_or_index.n - 1)])
         ELSE GetOut("ok", l.keys[PyIndex(Len(l.keys), key_or_index.n - 1)])
    ELSE IF Matches(l.keys, key_or_index) = {} THEN GetOut("ok", NullV)
    ELSE GetOut("ok", l.values[CHOOSE i \in Matches(l.keys, key_or_index) :
                                  \A j \in Matches(l.keys, key_or_index) : i <= j])

\* dmlist_base.__getitem__: the status and the value returned.  An index
\* reads self.keys[key_or_index - 1] as a Python list does; a key is looked
\* for from the end, and the loop falling through returns None
getitem(l, key_or_index) ==
    IF IsNumber(key_or_index) /\ key_or_index.n = 0 THEN GetOut("RuntimeError", NullV)
    ELSE IF IsNumber(key_or_index)
    THEN IF PyIndex(Len(l.keys), key_or_index.n - 1) = 0 THEN GetOut("IndexError", NullV)
         ELSE IF l.keys[PyIndex(Len(l.keys), key_or_index.n - 1)] = NullV
         THEN GetOut("ok", l.values[PyIndex(Len(l.keys), key_or_index.n - 1)])
         ELSE GetOut("ok", l.keys[PyIndex(Len(l.keys), key_or_index.n - 1)])
    ELSE IF Matches(l.keys, key_or_index) = {} THEN GetOut("ok", NullV)
    ELSE GetOut("ok", l.values[Last(Matches(l.keys, key_or_index))])

\* the mutant: the last entry's value is popped and its key is left
RemoveLast_values(l, other) ==
    IF Matches(l.values, other) = {} THEN l
    ELSE DmList(l.keys, Pop(l.values, Last(Matches(l.values, other)) - 1))

\* the else branch of __isub__: the last entry whose value equals other is
\* popped from values and keys
RemoveLast(l, other) ==
    IF Matches(l.values, other) = {} THEN l
    ELSE DmList(Pop(l.keys, Last(Matches(l.values, other)) - 1),
                Pop(l.values, Last(Matches(l.values, other)) - 1))

\* the dmlist branch of __isub__ from the i-th of the n values counted when
\* the loop started: other.values[i] is read from the operand as it is now,
\* self -= val, and val._add_lists.remove(self) for an iota, which raises
\* KeyError when self is not in the set
RECURSIVE IsubEach(_, _, _, _, _, _)
IsubEach(lists, add, self, other, i, n) ==
    IF i > n THEN DmOut("ok", NullV, lists, add)
    ELSE IF i > Len(lists[other].values) THEN DmOut("IndexError", NullV, lists, add)
    ELSE IF lists[other].values[i].t # "iota"
    THEN IsubEach([lists EXCEPT ![self] = RemoveLast(@, lists[other].values[i])],
                  add, self, other, i + 1, n)
    ELSE IF self \notin add[lists[other].values[i].id]
    THEN DmOut("KeyError", NullV,
               [lists EXCEPT ![self] = RemoveLast(@, lists[other].values[i])], add)
    ELSE IsubEach([lists EXCEPT ![self] = RemoveLast(@, lists[other].values[i])],
                  [add EXCEPT ![lists[other].values[i].id] = @ \ {self}],
                  self, other, i + 1, n)

\* dmlist_base.__isub__
isub(lists, add, self, other) ==
    IF other.t = "dmlist"
    THEN IsubEach(lists, add, self, other.id, 1, Len(lists[other.id].keys))
    ELSE DmOut("ok", NullV, [lists EXCEPT ![self] = RemoveLast(@, other)], add)

\* the lists and the objects of a behaviour
ListIds == {1, 2}
ObjIds == {1}

\* the values appended and removed, the keys appended and asked for
DmValues == {StrV(<<"a">>), StrV(<<"b">>), ObjV(1)}
DmKeys == {NullV, StrV(<<"k">>)}
DmLookups == {StrV(<<"k">>), StrV(<<"a">>), NullV, IntV(0), IntV(1), IntV(2)}

\* dmlist() twice and one object constructed
InitList == /\ d_lists = [l \in ListIds |-> DmList(<<>>, <<>>)]
            /\ d_add_lists = [o \in ObjIds |-> {}]
            /\ d_call = [op |-> "none"]
            /\ d_nops = 0
            /\ d_attrs = <<>>
            /\ d_add_vars = [o \in ObjIds |-> {}]
            /\ MapIdle
            /\ ValIdle
            /\ TileIdle
            /\ IconIdle
            /\ LintIdle
            /\ StoreIdle

\* a dmlist operation on the list self that ended as out
Did(op, self, arg, key, out) ==
    /\ d_nops < MaxListOps
    /\ d_nops' = d_nops + 1
    /\ d_lists' = out.lists
    /\ d_add_lists' = out.add
    /\ d_call' = [op |-> op, self |-> self, arg |-> arg, key |-> key,
                  before |-> d_lists, status |-> out.status, ret |-> out.ret]
    /\ UNCHANGED <<d_attrs, d_add_vars, valvars, tilevars, readvars, writevars,
                   iconvars, lintvars, storevars>>

\* a read that ended as r: the lists and the objects stay as they are
Kept(r) == DmOut(r.status, r.ret, d_lists, d_add_lists)

\* l.append(value, key)
ListAppend ==
    \E self \in ListIds, value \in DmValues, key \in DmKeys :
        /\ Len(d_lists[self].keys) < MaxListLen
        /\ Did("append", self, value, key, append(d_lists, d_add_lists, self, value, key))

\* l[key_or_index]
ListGetItem ==
    \E self \in ListIds, k \in DmLookups :
        Did("getitem", self, k, NullV, Kept(getitem(d_lists[self], k)))

\* l -= other
ListISub ==
    \E self \in ListIds, other \in DmValues \cup {ListRef(o) : o \in ListIds} :
        Did("isub", self, other, NullV, isub(d_lists, d_add_lists, self, other))

NextList == \/ ListAppend
            \/ ListGetItem
            \/ ListISub

SpecList == InitList /\ [][NextList]_vars

\* the list the last call was made on, as it was before the call
CalledList == d_call.before[d_call.self]

\* C19 (key indexing): l[k] for a key k that is not a number returns the
\* value of the last entry whose key equals k and returns None when no entry
\* has that key; it never raises and changes no list.
C19_KeyIndexing ==
    (d_call.op = "getitem" /\ ~IsNumber(d_call.arg)) =>
        /\ d_call.status = "ok"
        /\ d_lists = d_call.before
        /\ \A i \in 1..Len(CalledList.keys) :
              (/\ ValEq(CalledList.keys[i], d_call.arg)
               /\ \A j \in (i + 1)..Len(CalledList.keys) :
                     ~ValEq(CalledList.keys[j], d_call.arg))
              => d_call.ret = CalledList.values[i]
        /\ (\A i \in 1..Len(CalledList.keys) : ~ValEq(CalledList.keys[i], d_call.arg))
              => d_call.ret = NullV

\* l["k"] on a list with two entries of key k holding different values
C19_Witness ==
    /\ d_call.op = "getitem"
    /\ d_call.arg = StrV(<<"k">>)
    /\ Cardinality({i \in 1..Len(CalledList.keys) :
                       CalledList.keys[i] = StrV(<<"k">>)}) = 2
    /\ \E i, j \in 1..Len(CalledList.keys) :
          /\ i < j
          /\ CalledList.keys[i] = StrV(<<"k">>)
          /\ CalledList.keys[j] = StrV(<<"k">>)
          /\ CalledList.values[i] # CalledList.values[j]
          /\ d_call.ret = CalledList.values[j]

\* the list without the last entry whose value equals x, the list itself
\* when no value equals x
WithoutLast(l, x) ==
    IF \A i \in 1..Len(l.values) : ~ValEq(l.values[i], x) THEN l
    ELSE LET idx == CHOOSE i \in 1..Len(l.values) :
                        /\ ValEq(l.values[i], x)
                        /\ \A j \in (i + 1)..Len(l.values) : ~ValEq(l.values[j], x)
         IN DmList([i \in 1..(Len(l.keys) - 1) |->
                       IF i < idx THEN l.keys[i] ELSE l.keys[i + 1]],
                   [i \in 1..(Len(l.values) - 1) |->
                       IF i < idx THEN l.values[i] ELSE l.values[i + 1]])

\* the list after WithoutLast for each of the values xs in order
RECURSIVE WithoutEach(_, _, _)
WithoutEach(l, xs, i) ==
    IF i > Len(xs) THEN l ELSE WithoutEach(WithoutLast(l, xs[i]), xs, i + 1)

\* C20 (in-place removal): l -= x for an x that is no list removes the last
\* entry whose value equals x and nothing else, and leaves the list as it
\* was when no value equals x; for a dmlist operand it does this once for
\* each value of the operand.  No other list changes.
C20_InPlaceRemoval ==
    d_call.op = "isub" =>
        /\ d_call.status = "ok"
        /\ d_lists[d_call.self]
           = IF d_call.arg.t = "dmlist"
             THEN WithoutEach(CalledList, d_call.before[d_call.arg.id].values, 1)
             ELSE WithoutLast(CalledList, d_call.arg)
        /\ \A o \in ListIds \ {d_call.self} : d_lists[o] = d_call.before[o]

\* what holds of l -= x for an x that is no list
RemovalOfValue ==
    (d_call.op = "isub" /\ d_call.arg.t # "dmlist") =>
        /\ d_call.status = "ok"
        /\ d_lists[d_call.self] = WithoutLast(CalledList, d_call.arg)
        /\ \A o \in ListIds \ {d_call.self} : d_lists[o] = d_call.before[o]

\* --------------------------------------------- dmlist operations and _del

\* the exception of _check_integrity
IntegrityError == "RuntimeError: dmlist integrity check failed"

\* self._check_integrity() at the end of an operation that got as far as out
_check_integrity(out, self) ==
    IF out.status = "ok" /\ Len(out.lists[self].keys) # Len(out.lists[self].values)
    THEN DmOut(IntegrityError, NullV, out.lists, out.add)
    ELSE out

\* return ret from an operation that got as far as out
Returning(out, ret) == IF out.status = "ok" THEN [out EXCEPT !.ret = ret] ELSE out

\* an element (k, v) of the argument of the constructor
Pair(k, v) == [t |-> "tuple", k |-> k, v |-> v]

\* dmlist_base(keyvalues): the status and the list constructed.  Every
\* element has the type of the first; a str and anything that is no
\* iterable is a keyless value, a pair is a key and its value, and a number
\* is no key.  No _add_lists is touched
RECURSIVE InitEach(_, _, _)
InitEach(l, keyvalues, i) ==
    IF i > Len(keyvalues) THEN GetOut("ok", l)
    ELSE IF keyvalues[i].t # keyvalues[1].t THEN GetOut("RuntimeError", NullV)
    ELSE IF keyvalues[i].t = "tuple"
    THEN IF IsNumber(keyvalues[i].k) THEN GetOut("IndexError", NullV)
         ELSE InitEach(DmList(Append(l.keys, keyvalues[i].k), Append(l.values, keyvalues[i].v)),
                       keyvalues, i + 1)
    ELSE InitEach(DmList(Append(l.keys, NullV), Append(l.values, keyvalues[i])),
                  keyvalues, i + 1)

__init__(lists, add, keyvalues) ==
    IF InitEach(DmList(<<>>, <<>>), keyvalues, 1).status = "ok"
    THEN DmOut("ok", ListRef(Len(lists) + 1),
               Append(lists, InitEach(DmList(<<>>, <<>>), keyvalues, 1).ret), add)
    ELSE DmOut(InitEach(DmList(<<>>, <<>>), keyvalues, 1).status, NullV, lists, add)

\* dmlist_base.__setitem__: an index above len(self.keys) is refused and any
\* other index is used as self.values[key_or_index - 1] = value, which a
\* Python list takes for 0 and for negative indices; a key sets the value
\* of every entry with that key and is appended when there is none
__setitem__(lists, add, self, key_or_index, value) ==
    IF IsNumber(key_or_index)
    THEN IF key_or_index.n > Len(lists[self].keys) THEN DmOut("IndexError", NullV, lists, add)
         ELSE IF PyIndex(Len(lists[self].values), key_or_index.n - 1) = 0
         THEN DmOut("IndexError", NullV, lists, add)
         ELSE _check_integrity(
                  DmOut("ok", NullV,
                        [lists EXCEPT ![self].values[PyIndex(Len(lists[self].values),
                                                             key_or_index.n - 1)] = value],
                        Tracked(add, value, self)),
                  self)
    ELSE _check_integrity(
             DmOut("ok", NullV,
                   [lists EXCEPT ![self] =
                       IF Matches(@.keys, key_or_index) = {}
                       THEN DmList(Append(@.keys, key_or_index), Append(@.values, value))
                       ELSE DmList(@.keys,
                                   [i \in 1..Len(@.values) |->
                                       IF i \in Matches(@.keys, key_or_index)
                                       THEN value ELSE @.values[i]])],
                   Tracked(Tracked(add, key_or_index, self), value, self)),
             self)

\* dmlist_base._has_none_key_value
_has_none_key_value(l, value) ==
    \E idx \in 1..Len(l.keys) : l.keys[idx] = NullV /\ ValEq(l.values[idx], value)

\* x in seq, for a Python list seq
PyIn(x, seq) == Matches(seq, x) # {}

\* the loop of __ior__ over the entries (keys[i], values[i]) of the operand
\* from the i-th on: a keyless value is appended unless self holds it as a
\* keyless value, a keyed one unless self holds the key.  (When the operand
\* is self, every entry is found in self and nothing is appended, so the
\* operand read when the loop starts is the operand at every step.)
RECURSIVE IorEach(_, _, _, _, _, _)
IorEach(lists, add, self, keys, values, i) ==
    IF i > Len(keys) THEN DmOut("ok", NullV, lists, add)
    ELSE IF keys[i] = NullV
    THEN IF _has_none_key_value(lists[self], values[i])
         THEN IorEach(lists, add, self, keys, values, i + 1)
         ELSE IorEach(append(lists, add, self, values[i], NullV).lists,
                      append(lists, add, self, values[i], NullV).add,
                      self, keys, values, i + 1)
    ELSE IF PyIn(keys[i], lists[self].keys)
         THEN IorEach(lists, add, self, keys, values, i + 1)
         ELSE IorEach(append(lists, add, self, values[i], keys[i]).lists,
                      append(lists, add, self, values[i], keys[i]).add,
                      self, keys, values, i + 1)

\* dmlist_base.__ior__: a dmlist operand entry by entry; a str or a number
\* is appended unless it is among self.keys; any other iterable value by
\* value; anything else is appended unless it is among self.values
__ior__(lists, add, self, other) ==
    Returning(
        _check_integrity(
            IF other.t = "dmlist"
            THEN IorEach(lists, add, self, lists[other.id].keys, lists[other.id].values, 1)
            ELSE IF other.t = "str" \/ IsNumber(other)
            THEN IF PyIn(other, lists[self].keys) THEN DmOut("ok", NullV, lists, add)
                 ELSE append(lists, add, self, other, NullV)
            ELSE IF other.t = "list"
            THEN IorEach(lists, add, self, [i \in 1..Len(other.items) |-> NullV],
                         other.items, 1)
            ELSE IF PyIn(other, lists[self].values) THEN DmOut("ok", NullV, lists, add)
                 ELSE append(lists, add, self, other, NullV),
            self),
        ListRef(self))

\* dmlist_base._safe_duplicate: a new dmlist with copies of self.keys and
\* self.values, added to the _add_lists of every iota among them
_safe_duplicate(lists, add, self) ==
    DmOut("ok", ListRef(Len(lists) + 1),
          Append(lists, lists[self]),
          [o \in DOMAIN add |->
              IF PyIn(ObjV(o), lists[self].keys) \/ PyIn(ObjV(o), lists[self].values)
              THEN add[o] \cup {Len(lists) + 1} ELSE add[o]])

\* dmlist_base.__or__: the body of __ior__ on result = self._safe_duplicate()
__or__(lists, add, self, other) ==
    Returning(__ior__(_safe_duplicate(lists, add, self).lists,
                      _safe_duplicate(lists, add, self).add,
                      Len(lists) + 1, other),
              ListRef(Len(lists) + 1))

\* the loop of __iadd__ over a dmlist operand, from the i-th of the n
\* entries counted when the loop started: a keyless value is appended, a
\* keyed one assigned by its key
RECURSIVE IaddEach(_, _, _, _, _, _)
IaddEach(lists, add, self, other, i, n) ==
    IF i > n THEN DmOut("ok", NullV, lists, add)
    ELSE IF lists[other].keys[i] = NullV
    THEN IaddEach(append(lists, add, self, lists[other].values[i], NullV).lists,
                  append(lists, add, self, lists[other].values[i], NullV).add,
                  self, other, i + 1, n)
    ELSE IF __setitem__(lists, add, self, lists[other].keys[i],
                        lists[other].values[i]).status # "ok"
    THEN __setitem__(lists, add, self, lists[other].keys[i], lists[other].values[i])
    ELSE IaddEach(__setitem__(lists, add, self, lists[other].keys[i],
                              lists[other].values[i]).lists,
                  __setitem__(lists, add, self, lists[other].keys[i],
                              lists[other].values[i]).add,
                  self, other, i + 1, n)

\* for k in other: self.append(k)
RECURSIVE AppendEach(_, _, _, _, _)
AppendEach(lists, add, self, items, i) ==
    IF i > Len(items) THEN DmOut("ok", NullV, lists, add)
    ELSE AppendEach(append(lists, add, self, items[i], NullV).lists,
                    append(lists, add, self, items[i], NullV).add,
                    self, items, i + 1)

\* dmlist_base.__iadd__: a dmlist operand entry by entry; any other
\* iterable item by item, a str being an iterable of its characters;
\* anything else is appended
__iadd__(lists, add, self, other) ==
    Returning(
        _check_integrity(
            IF other.t = "dmlist"
            THEN IF Len(lists[other.id].keys) # Len(lists[other.id].values)
                 THEN DmOut(IntegrityError, NullV, lists, add)
                 ELSE IaddEach(lists, add, self, other.id, 1, Len(lists[other.id].keys))
            ELSE IF other.t = "str"
            THEN AppendEach(lists, add, self,
                            [i \in 1..Len(other.s) |-> StrV(<<other.s[i]>>)], 1)
            ELSE IF other.t = "list"
            THEN AppendEach(lists, add, self, other.items, 1)
            ELSE append(lists, add, self, other, NullV),
            self),
        ListRef(self))

\* dmlist_base.__add__: the body of __iadd__ on result = self._safe_duplicate()
__add__(lists, add, self, other) ==
    Returning(__iadd__(_safe_duplicate(lists, add, self).lists,
                       _safe_duplicate(lists, add, self).add,
                       Len(lists) + 1, other),
              ListRef(Len(lists) + 1))

\* dmlist_base.__sub__: the body of __isub__ on result = self._safe_duplicate()
__sub__(lists, add, self, other) ==
    Returning(isub(_safe_duplicate(lists, add, self).lists,
                   _safe_duplicate(lists, add, self).add,
                   Len(lists) + 1, other),
              ListRef(Len(lists) + 1))

\* dmlist_base.clear: no _add_lists is touched
clear(lists, add, self) ==
    DmOut("ok", NullV, [lists EXCEPT ![self] = DmList(<<>>, <<>>)], add)

\* dmlist_base.Cut
Cut(lists, add, self) ==
    IF Len(lists[self].keys) # Len(lists[self].values)
    THEN DmOut(IntegrityError, NullV, lists, add)
    ELSE clear(lists, add, self)

\* the loop of _del over the entries of one list: a value that is obj
\* becomes None, and so do a key that is obj and its value
DelIn(l, obj) ==
    DmList([i \in 1..Len(l.keys) |-> IF l.keys[i] = obj THEN NullV ELSE l.keys[i]],
           [i \in 1..Len(l.values) |->
               IF l.values[i] = obj \/ l.keys[i] = obj THEN NullV ELSE l.values[i]])

\* how _del ends: the status, the lists, the _add_lists, the attributes and
\* the _add_vars afterwards
DelOut(status, lists, add, attrs, addvars) ==
    [status |-> status, lists |-> lists, add |-> add, attrs |-> attrs,
     addvars |-> addvars]

\* _del(obj): the lists of obj._add_lists are cleared of obj and the set is
\* emptied, then every attribute named in obj._add_vars is set to None and
\* that table is emptied
_del(lists, add, attrs, addvars, obj) ==
    IF \E l \in add[obj] : Len(lists[l].keys) # Len(lists[l].values)
    THEN DelOut(IntegrityError, lists, add, attrs, addvars)
    ELSE DelOut("ok",
                [l \in DOMAIN lists |->
                    IF l \in add[obj] THEN DelIn(lists[l], ObjV(obj)) ELSE lists[l]],
                [add EXCEPT ![obj] = {}],
                [h \in DOMAIN attrs |->
                    [name \in DOMAIN attrs[h] |->
                        IF <<h, name>> \in addvars[obj] THEN NullV ELSE attrs[h][name]]],
                [addvars EXCEPT ![obj] = {}])

\* iota.__setattr__(self, name, value): the attribute is set, and an iota
\* value notes the holder and the name in its _add_vars
__setattr__(attrs, addvars, self, name, value) ==
    [attrs |-> [attrs EXCEPT ![self][name] = value],
     addvars |-> IF value.t = "iota"
                 THEN [addvars EXCEPT ![value.id] = @ \cup {<<self, name>>}]
                 ELSE addvars]

\* ------------------------------------------ lists, objects and _del at work

\* the object that holds attributes, and the attributes assigned
Holders == {2}
AttrNames == {"foo"}

\* an attribute never assigned
Unset == [t |-> "unset"]

\* the arguments of the constructor
KeyValueArgs ==
    {<<>>,
     <<StrV(<<"a">>), StrV(<<"b">>)>>,
     <<ObjV(1)>>,
     <<Pair(StrV(<<"k">>), StrV(<<"a">>))>>,
     <<StrV(<<"a">>), ObjV(1)>>,
     <<Pair(IntV(5), StrV(<<"a">>))>>}

\* the values appended, assigned and given as operands; the keys; the
\* indices and keys of l[...] and l[...] = v
DmItems == {StrV(<<"a">>), IntV(1), ObjV(1)}
DmAppendKeys == {NullV, StrV(<<"k">>), ObjV(1)}
DmIndexes == {IntV(0), IntV(1), IntV(2), IntV(3)}
DmAssigned == {StrV(<<"b">>), ObjV(1)}
DmAttrValues == {ObjV(1), StrV(<<"a">>)}

\* the dmlists constructed so far, as operands
ListRefs == {ListRef(l) : l \in DOMAIN d_lists}

\* no dmlist yet, one object that goes into lists and attributes, one that
\* holds attributes
InitDm == /\ d_lists = <<>>
          /\ d_add_lists = [o \in ObjIds |-> {}]
          /\ d_call = [op |-> "none"]
          /\ d_nops = 0
          /\ d_attrs = [h \in Holders |-> [name \in AttrNames |-> Unset]]
          /\ d_add_vars = [o \in ObjIds |-> {}]
          /\ MapIdle
          /\ ValIdle
          /\ TileIdle
          /\ IconIdle
          /\ LintIdle
          /\ StoreIdle

\* a dmlist operation on the list self that ended as out
DidDm(op, self, arg, key, out) ==
    /\ d_nops < MaxDmOps
    /\ d_nops' = d_nops + 1
    /\ d_lists' = out.lists
    /\ d_add_lists' = out.add
    /\ d_call' = [op |-> op, self |-> self, arg |-> arg, key |-> key,
                  before |-> d_lists, status |-> out.status, ret |-> out.ret]
    /\ UNCHANGED <<d_attrs, d_add_vars, valvars, tilevars, readvars, writevars,
                   iconvars, lintvars, storevars>>

\* l = dmlist_base(keyvalues)
DmConstruct ==
    \E keyvalues \in KeyValueArgs :
        /\ Len(d_lists) < MaxLists
        /\ DidDm("init", Len(d_lists) + 1, keyvalues, NullV,
                 __init__(d_lists, d_add_lists, keyvalues))

\* l.append(value, key)
DmAppend ==
    \E self \in DOMAIN d_lists, value \in DmItems, key \in DmAppendKeys :
        DidDm("append", self, value, key, append(d_lists, d_add_lists, self, value, key))

\* l[key_or_index]
DmGetItem ==
    \E self \in DOMAIN d_lists, k \in DmIndexes \cup {StrV(<<"k">>)} :
        DidDm("getitem", self, k, NullV, Kept(getitem(d_lists[self], k)))

\* l[key_or_index] = value
DmSetItem ==
    \E self \in DOMAIN d_lists, k \in DmIndexes \cup {StrV(<<"k">>)}, value \in DmAssigned :
        DidDm("setitem", self, value, k, __setitem__(d_lists, d_add_lists, self, k, value))

\* l += other
DmIAdd ==
    \E self \in DOMAIN d_lists, other \in DmItems \cup ListRefs :
        DidDm("iadd", self, other, NullV, __iadd__(d_lists, d_add_lists, self, other))

\* l + other
DmAdd ==
    \E self \in DOMAIN d_lists, other \in DmItems \cup ListRefs :
        /\ Len(d_lists) < MaxLists
        /\ DidDm("add", self, other, NullV, __add__(d_lists, d_add_lists, self, other))

\* l -= other
DmISub ==
    \E self \in DOMAIN d_lists, other \in DmItems \cup ListRefs :
        DidDm("isub", self, other, NullV, isub(d_lists, d_add_lists, self, other))

\* l - other
DmSub ==
    \E self \in DOMAIN d_lists, other \in DmItems \cup ListRefs :
        /\ Len(d_lists) < MaxLists
        /\ DidDm("sub", self, other, NullV, __sub__(d_lists, d_add_lists, self, other))

\* l |= other
DmIOr ==
    \E self \in DOMAIN d_lists,
       other \in DmItems \cup ListRefs \cup {ListV(<<StrV(<<"a">>), StrV(<<"a">>)>>)} :
        DidDm("ior", self, other, NullV, __ior__(d_lists, d_add_lists, self, other))

\* l | other
DmOr ==
    \E self \in DOMAIN d_lists, other \in DmItems \cup ListRefs :
        /\ Len(d_lists) < MaxLists
        /\ DidDm("or", self, other, NullV, __or__(d_lists, d_add_lists, self, other))

\* l.clear()
DmClear ==
    \E self \in DOMAIN d_lists :
        DidDm("clear", self, NullV, NullV, clear(d_lists, d_add_lists, self))

\* l.Cut()
DmCut ==
    \E self \in DOMAIN d_lists :
        DidDm("Cut", self, NullV, NullV, Cut(d_lists, d_add_lists, self))

\* holder.name = value
DmSetAttr ==
    \E self \in Holders, name \in AttrNames, value \in DmAttrValues :
        /\ d_nops < MaxDmOps
        /\ d_nops' = d_nops + 1
        /\ d_attrs' = __setattr__(d_attrs, d_add_vars, self, name, value).attrs
        /\ d_add_vars' = __setattr__(d_attrs, d_add_vars, self, name, value).addvars
        /\ d_call' = [op |-> "setattr", self |-> self, arg |-> value, key |-> name,
                      before |-> d_lists, status |-> "ok", ret |-> NullV]
        /\ UNCHANGED <<d_lists, d_add_lists, valvars, tilevars, readvars, writevars,
                       iconvars, lintvars, storevars>>

\* _del(obj) that ended as out
Deleted(obj, out) ==
    /\ d_nops < MaxDmOps
    /\ d_nops' = d_nops + 1
    /\ d_lists' = out.lists
    /\ d_add_lists' = out.add
    /\ d_attrs' = out.attrs
    /\ d_add_vars' = out.addvars
    /\ d_call' = [op |-> "del", self |-> obj, arg |-> ObjV(obj), key |-> NullV,
                  before |-> d_lists, add |-> d_add_lists, attrs |-> d_attrs,
                  status |-> out.status, ret |-> NullV]
    /\ UNCHANGED <<valvars, tilevars, readvars, writevars, iconvars, lintvars,
                   storevars>>

\* _del(obj)
DmDel ==
    \E obj \in ObjIds :
        Deleted(obj, _del(d_lists, d_add_lists, d_attrs, d_add_vars, obj))

NextDm == \/ DmConstruct
          \/ DmAppend
          \/ DmGetItem
          \/ DmSetItem
          \/ DmIAdd
          \/ DmAdd
          \/ DmISub
          \/ DmSub
          \/ DmIOr
          \/ DmOr
          \/ DmClear
          \/ DmCut
          \/ DmSetAttr
          \/ DmDel

SpecDm == InitDm /\ [][NextDm]_vars

\* entry i of a list as iteration and containment see it: the value of a
\* keyless entry, the key of a keyed one
Elem(l, i) == IF l.keys[i] = NullV THEN l.values[i] ELSE l.keys[i]

\* x in l
Holds(l, x) == \E i \in 1..Len(l.keys) : ValEq(Elem(l, i), x)

\* the elements of the operand of the last call, in order
OperandElems ==
    IF d_call.arg.t = "dmlist"
    THEN [i \in 1..Len(d_call.before[d_call.arg.id].keys) |->
             Elem(d_call.before[d_call.arg.id], i)]
    ELSE IF d_call.arg.t = "list" THEN d_call.arg.items
    ELSE <<d_call.arg>>

\* the positions of xs whose element is not in l and not earlier in xs
NewAt(l, xs) ==
    {i \in 1..Len(xs) : ~Holds(l, xs[i]) /\ \A j \in 1..(i - 1) : ~ValEq(xs[j], xs[i])}

\* the id of the list a union gave: self for |=, the new list for |
UnionId == IF d_call.op = "ior" THEN d_call.self ELSE Len(d_call.before) + 1

\* C21 (union): l |= x and l | x end normally with a list that starts with
\* the entries of l in order and then holds, in order and once each, the
\* elements of x that are not in l; l | x leaves l as it was; and the same
\* union applied to the result changes nothing.
C21_UnionAddsOnlyNew ==
    (d_call.op \in {"ior", "or"}) =>
        /\ d_call.status = "ok"
        /\ d_call.op = "or" => d_lists[d_call.self] = CalledList
        /\ Len(d_lists[UnionId].keys)
           = Len(CalledList.keys) + Cardinality(NewAt(CalledList, OperandElems))
        /\ SubSeq(d_lists[UnionId].keys, 1, Len(CalledList.keys)) = CalledList.keys
        /\ SubSeq(d_lists[UnionId].values, 1, Len(CalledList.values)) = CalledList.values
        /\ \A i \in NewAt(CalledList, OperandElems) :
              ValEq(Elem(d_lists[UnionId],
                         Len(CalledList.keys)
                         + Cardinality({j \in NewAt(CalledList, OperandElems) : j <= i})),
                    OperandElems[i])
        /\ __ior__(d_lists, d_add_lists, UnionId, d_call.arg).lists[UnionId]
           = d_lists[UnionId]

\* what holds of a union whose operand is an object or a dmlist of keyless
\* values: the entries of l, then the new elements in order, once each
UnionOfObjects ==
    (/\ d_call.op \in {"ior", "or"}
     /\ \/ d_call.arg.t = "iota"
        \/ /\ d_call.arg.t = "dmlist"
           /\ \A i \in 1..Len(d_call.before[d_call.arg.id].keys) :
                 d_call.before[d_call.arg.id].keys[i] = NullV
     /\ \A i \in 1..Len(CalledList.keys) : CalledList.keys[i] = NullV) =>
        /\ d_call.status = "ok"
        /\ Len(d_lists[UnionId].keys)
           = Len(CalledList.keys) + Cardinality(NewAt(CalledList, OperandElems))
        /\ SubSeq(d_lists[UnionId].values, 1, Len(CalledList.values)) = CalledList.values
        /\ __ior__(d_lists, d_add_lists, UnionId, d_call.arg).lists[UnionId]
           = d_lists[UnionId]

\* the object the last _del was called on
Dead == ObjV(d_call.self)

\* C22 (_del removes every reference): after _del(obj) ends, no dmlist
\* holds obj as a key or a value, every slot that held it reads None, and
\* no attribute refers to it.
C22_DelRemovesEveryReference ==
    d_call.op = "del" =>
        /\ d_call.status = "ok"
        /\ \A l \in DOMAIN d_lists :
              /\ ~PyIn(Dead, d_lists[l].keys)
              /\ ~PyIn(Dead, d_lists[l].values)
              /\ \A i \in 1..Len(d_call.before[l].keys) :
                    /\ d_call.before[l].keys[i] = Dead => d_lists[l].keys[i] = NullV
                    /\ d_call.before[l].values[i] = Dead => d_lists[l].values[i] = NullV
        /\ \A h \in Holders, name \in AttrNames : d_attrs[h][name] # Dead

\* what holds of _del(obj): every list of obj._add_lists is cleared of obj,
\* and no attribute refers to obj afterwards
DelClearsTrackedLists ==
    d_call.op = "del" =>
        /\ d_call.status = "ok"
        /\ \A l \in d_call.add[d_call.self] :
              ~PyIn(Dead, d_lists[l].keys) /\ ~PyIn(Dead, d_lists[l].values)
        /\ \A h \in Holders, name \in AttrNames : d_attrs[h][name] # Dead

\* what holds of l[i] for an index i >= 0: entry i is read for
\* 1 <= i <= len(l), any other index is refused, and no list changes
IndexedRead ==
    (d_call.op = "getitem" /\ IsNumber(d_call.arg)) =>
        /\ d_lists = d_call.before
        /\ IF 1 <= d_call.arg.n /\ d_call.arg.n <= Len(CalledList.keys)
           THEN d_call.status = "ok" /\ d_call.ret = Elem(CalledList, d_call.arg.n)
           ELSE d_call.status # "ok"

\* C23 (1-indexed): for 1 <= i <= len(l), l[i] reads entry i (the value of a
\* keyless entry, the key of a keyed one) and l[i] = v overwrites the value
\* of entry i only; index 0 and every index above len(l) are refused with
\* an error, reading and writing alike, and the list is left as it was.
C23_OneIndexed ==
    /\ IndexedRead
    /\ (d_call.op = "setitem" /\ IsNumber(d_call.key)) =>
          IF 1 <= d_call.key.n /\ d_call.key.n <= Len(CalledList.keys)
          THEN /\ d_call.status = "ok"
               /\ d_lists = [d_call.before EXCEPT
                                ![d_call.self].values[d_call.key.n] = d_call.arg]
          ELSE d_call.status # "ok" /\ d_lists = d_call.before

\* C27 (integrity): after every dmlist operation, however it ended, and
\* after every _del, each list's keys and values have the same length, and
\* no operation ends with the integrity check failing.
C27_Integrity ==
    /\ \A l \in DOMAIN d_lists : Len(d_lists[l].keys) = Len(d_lists[l].values)
    /\ d_call.op # "none" => d_call.status # IntegrityError

\* a removal that ended with KeyError after popping an entry, next to a
\* list built by the constructor
C27_Witness ==
    /\ d_call.op \in {"isub", "sub"}
    /\ d_call.status = "KeyError"
    /\ Len(d_lists) >= 2
    /\ \E l \in DOMAIN d_call.before :
          Len(d_lists[l].keys) < Len(d_call.before[l].keys)

\* what holds of _del(obj) on the lists: an entry whose key and value are
\* not obj is left as it was, and no list changes its length
DelKeepsOtherEntries ==
    d_call.op = "del" =>
        \A l \in DOMAIN d_lists :
            /\ Len(d_lists[l].keys) = Len(d_call.before[l].keys)
            /\ \A i \in 1..Len(d_call.before[l].keys) :
                  (d_call.before[l].keys[i] # Dead /\ d_call.before[l].values[i] # Dead)
                  => /\ d_lists[l].keys[i] = d_call.before[l].keys[i]
                     /\ d_lists[l].values[i] = d_call.before[l].values[i]

\* C28 (_del frame): _del(obj) leaves every attribute that does not refer to
\* obj when it is called with the value it has, and leaves every dmlist
\* entry whose key and value are not obj as it was.
C28_DelChangesOnlyReferences ==
    d_call.op = "del" =>
        /\ d_call.status = "ok"
        /\ \A h \in Holders, name \in AttrNames :
              d_call.attrs[h][name] # Dead => d_attrs[h][name] = d_call.attrs[h][name]
        /\ DelKeepsOtherEntries

\* ------------------------------------------------- the readers, called again

\* the files at dmi_filename: not an image, an image without a description,
\* an image whose description the grammar rejects, a well-formed icon file
DmiFiles == {DmiFile(FALSE, FALSE, FALSE), DmiFile(TRUE, FALSE, FALSE),
             DmiFile(TRUE, TRUE, FALSE), DmiFile(TRUE, TRUE, TRUE)}

InitReaders == /\ m_disk \in DmmFiles
               /\ PipelineFresh
               /\ i_file \in DmiFiles
               /\ IconFresh
               /\ RestIdle
               /\ ValIdle
               /\ TileIdle

\* r.Read() on the icon Reader
IconRead ==
    /\ i_nreads < MaxReads
    /\ LET out == IconReader_Read(i_parsed, i_file)
       IN /\ i_parsed' = out.parsed
          /\ i_ret' = out.status
          /\ i_returned' = (i_returned \/ out.status = "ok")
    /\ i_nreads' = i_nreads + 1
    /\ UNCHANGED <<i_file, valvars, tilevars, readvars, writevars, lintvars, storevars, dmvars>>

\* the file at dmi_filename is replaced; Read opens it only while the reader
\* has not parsed
IconChangeFile ==
    /\ ~i_parsed
    /\ \E f \in DmiFiles \ {i_file} : i_file' = f
    /\ UNCHANGED <<i_parsed, i_ret, i_returned, i_nreads,
                   valvars, tilevars, readvars, writevars, lintvars, storevars, dmvars>>

NextReaders == \/ Read
               \/ ChangeFile
               \/ IconRead
               \/ IconChangeFile

SpecReaders == InitReaders /\ [][NextReaders]_vars

\* C5 (readers are single-use): on the map Reader and on the icon Reader,
\* once a Read has returned a model, every later call of Read raises
\* RuntimeError, returns no model and leaves the reader as it was.
C5_ReadersSingleUse ==
    [][/\ (r_returned /\ r_nreads' # r_nreads) =>
              /\ r_ret' = "RuntimeError"
              /\ <<r_parsed, r_keys, r_map>>' = <<r_parsed, r_keys, r_map>>
       /\ (i_returned /\ i_nreads' # i_nreads) =>
              /\ i_ret' = "RuntimeError"
              /\ i_parsed' = i_parsed]_vars

\* both readers called again after a Read that returned a model
C5_Witness ==
    /\ r_returned /\ r_ret = "RuntimeError"
    /\ i_returned /\ i_ret = "RuntimeError"

\* ------------------------------------------------------- the image store

\* the icon files asked for
IconPaths == {"a.dmi", "b.dmi"}

\* whether the file is no identifiable image or has no description
NoPayload(file) == ~file.image \/ ~file.description

\* ImageStore(root) over the files under root
InitStore == /\ s_files \in [IconPaths -> DmiFiles]
             /\ s_datas = <<>>
             /\ s_call = [op |-> "none"]
             /\ s_ncalls = 0
             /\ MapIdle
             /\ ValIdle
             /\ TileIdle
             /\ IconIdle
             /\ LintIdle
             /\ DmIdle

\* a GetDmiData(p) call that ended as out
Got(p, out) ==
    /\ s_ncalls < MaxCalls
    /\ s_ncalls' = s_ncalls + 1
    /\ s_datas' = out.datas
    /\ s_call' = [op |-> "GetDmiData", p |-> p, file |-> s_files[p],
                  before |-> s_datas, status |-> out.status, ret |-> out.ret,
                  read |-> out.read]
    /\ UNCHANGED <<s_files, valvars, tilevars, readvars, writevars, iconvars,
                   lintvars, dmvars>>

\* store.GetDmiData(p)
CallGetDmiData == \E p \in IconPaths : Got(p, GetDmiData(s_datas, s_files, p))

\* a file under root is replaced
StoreChangeFile ==
    /\ \E p \in IconPaths, f \in DmiFiles :
          /\ f # s_files[p]
          /\ s_files' = [s_files EXCEPT ![p] = f]
    /\ UNCHANGED <<s_datas, s_call, s_ncalls, valvars, tilevars, readvars,
                   writevars, iconvars, lintvars, dmvars>>

NextStore == \/ CallGetDmiData
             \/ StoreChangeFile

SpecStore == InitStore /\ [][NextStore]_vars

\* C15 (no payload is not fatal): a Read on a file that is no identifiable
\* image or carries no description returns None without raising, GetDmiData
\* returns that None, and every later GetDmiData for the same file returns
\* None again without raising.
C15_NoPayloadNonFatal ==
    s_call.op = "GetDmiData" =>
        /\ (s_call.read # "none" /\ NoPayload(s_call.file)) =>
               /\ s_call.read = "None"
               /\ s_call.status = "ok"
               /\ s_call.ret = "None"
        /\ (DictHas(s_call.before, s_call.p)
            /\ DictGet(s_call.before, s_call.p) = "None") =>
               /\ s_call.status = "ok"
               /\ s_call.ret = "None"

\* GetDmiData called again for a file that had no payload and has one now
C15_Witness ==
    /\ s_call.op = "GetDmiData"
    /\ DictHas(s_call.before, s_call.p)
    /\ DictGet(s_call.before, s_call.p) = "None"
    /\ ~NoPayload(s_call.file)
    /\ s_call.file.accepted
    /\ s_call.ret = "None"

====
